---------------------------- MODULE Spec2Model ----------------------------
(***************************************************************************)
(* Model of crucible: the backup worker / control thread protocol of       *)
(* src/main.rs and the snapshot, listing and retention functions of        *)
(* src/app.rs.                                                             *)
(*                                                                         *)
(* Time is counted in whole seconds.  A directory name is a sequence of    *)
(* one-character strings, so that formatting a timestamp and parsing a     *)
(* name are computed the way chrono and str::split / str::parse do it.     *)
(***************************************************************************)
EXTENDS Integers, Sequences, FiniteSets, TLC

(***************************************************************************)
(* Bounds of the model.                                                    *)
(***************************************************************************)
\* the clock runs over StartTime .. StartTime + MaxTime (seconds, Unix time)
MaxTime == 6
\* the shorter window of the runs that start from a populated destination root
ShortTime == 3
\* 2024-12-31 23:59:57 UTC: minute, hour, day, month and year roll over
\* inside the window
StartTime == 1735689597
\* largest retention cap (Configuration.max_backups) drawn by Init
MaxCap == 5
\* Configuration.frequency, in seconds
Interval == 2

\* the key presses sent to the control thread in one run
MaxKeys == 2
\* seconds a run of the worker and the control thread is followed
RunTime == 2
\* the same three bounds in the runs checked for liveness
FairInterval == 1
FairTime == 1
FairKeys == 1

\* SpecRetime: the seconds a run is followed for and the key presses it is sent
RetimeTime == 1

RetimeKeys == 2

\* SpecRetimeLong: an interval long enough for a sleep to be interrupted two
\* seconds in, the seconds the run is followed for and its key presses
LongInterval == 3

LongTime == 2

LongKeys == 1

\* SpecRetimeStall: an interval long enough for a sleep to be interrupted
\* when it has lasted more than twice the shortest new interval, and the
\* seconds the run is followed for (its key presses: LongKeys)
StallInterval == 4

StallTime == 3

\* SpecPresses: the seconds a run is followed for and the key presses it is sent
PressesTime == 2

PressesKeys == 3

\* the interval of the runs of SpecEmpty and SpecRestore
ShortInterval == 1

\* SpecEmpty: the seconds a run is followed for and the key presses it is sent

EmptyTime == 2

EmptyKeys == 1

\* SpecRestore: the seconds a run is followed for and the key presses it is sent
RestoreTime == 1

RestorePresses == 3

\* SpecBackups: the seconds a run is followed for and the key presses it is sent
BackupsTime == 2

BackupsPresses == 3

(***************************************************************************)
(* Generic helpers.                                                        *)
(***************************************************************************)
Min(a, b) == IF a <= b THEN a ELSE b

\* the element of a one-element set; { e(x) : x \in {v} } computes v once
The(S) == CHOOSE x \in S : TRUE

(***************************************************************************)
(* Snapshot directory names: chrono's "%Y-%m-%d %H-%M-%S" and the parser   *)
(* of get_backups_sorted.                                                  *)
(***************************************************************************)
Digits == <<"0", "1", "2", "3", "4", "5", "6", "7", "8", "9">>

IsDigit(c) == \E i \in 1..10 : Digits[i] = c

DigitVal(c) == (CHOOSE i \in 1..10 : Digits[i] = c) - 1

\* n written with at least w digits, zero padded (n >= 0)
RECURSIVE PadNum(_, _)
PadNum(n, w) ==
    IF w <= 1 /\ n < 10 THEN <<Digits[n + 1]>>
    ELSE Append(PadNum(n \div 10, w - 1), Digits[(n % 10) + 1])

IsLeap(y) == (y % 4 = 0 /\ y % 100 # 0) \/ y % 400 = 0

DaysInMonth(y, m) ==
    IF m = 2 THEN (IF IsLeap(y) THEN 29 ELSE 28)
    ELSE IF m \in {4, 6, 9, 11} THEN 30 ELSE 31

\* days since 1970-01-01 of a proleptic Gregorian date (y >= 0)
DaysFromCivil(y, m, d) ==
    LET yy  == IF m <= 2 THEN y - 1 ELSE y
        era == yy \div 400
        yoe == yy - era * 400
        mp  == (m + 9) % 12
        doy == (153 * mp + 2) \div 5 + d - 1
        doe == yoe * 365 + yoe \div 4 - yoe \div 100 + doy
    IN  era * 146097 + doe - 719468

\* the date of a day number, as <<year, month, day>>
CivilFromDays(z0) ==
    LET z   == z0 + 719468
        era == z \div 146097
        doe == z - era * 146097
        yoe == (doe - doe \div 1460 + doe \div 36524 - doe \div 146096) \div 365
        doy == doe - (365 * yoe + yoe \div 4 - yoe \div 100)
        mp  == (5 * doy + 2) \div 153
        d   == doy - (153 * mp + 2) \div 5 + 1
        m   == IF mp < 10 THEN mp + 3 ELSE mp - 9
        y   == yoe + era * 400 + (IF m <= 2 THEN 1 ELSE 0)
    IN  <<y, m, d>>

\* a time zone as Local sees it: `before` seconds east of UTC up to the
\* instant `at`, `after` seconds from then on
Zone(at, before, after) == [at |-> at, before |-> before, after |-> after]

OffsetAt(z, t) == IF t < z.at THEN z.before ELSE z.after

\* the Local zone of the runs of SpecFS, Spec, SpecFair and SpecRetime: a
\* zone without daylight-saving transitions
LocalZone == Zone(0, 0, 0)

\* now.format("%Y-%m-%d %H-%M-%S").to_string() for the instant t in zone z
FormatNameIn(z, t) ==
    LET l   == t + OffsetAt(z, t)
        sod == l % 86400
    IN  The({ PadNum(ymd[1], 4) \o <<"-">> \o PadNum(ymd[2], 2) \o <<"-">>
              \o PadNum(ymd[3], 2) \o <<" ">> \o PadNum(sod \div 3600, 2) \o <<"-">>
              \o PadNum((sod % 3600) \div 60, 2) \o <<"-">> \o PadNum(sod % 60, 2)
              : ymd \in { CivilFromDays(l \div 86400) } })

FormatName(t) == FormatNameIn(LocalZone, t)

\* s.split(['-', ' ']): the pieces between separators, empty pieces kept
RECURSIVE SplitFrom(_, _, _)
SplitFrom(s, i, cur) ==
    IF i > Len(s) THEN <<cur>>
    ELSE IF s[i] \in {"-", " "} THEN <<cur>> \o SplitFrom(s, i + 1, <<>>)
    ELSE SplitFrom(s, i + 1, Append(cur, s[i]))

SplitName(s) == SplitFrom(s, 1, <<>>)

RECURSIVE StripZeros(_)
StripZeros(ds) ==
    IF Len(ds) > 1 /\ ds[1] = "0" THEN StripZeros(Tail(ds)) ELSE ds

RECURSIVE DigitsValue(_)
DigitsValue(ds) ==
    IF ds = <<>> THEN 0
    ELSE DigitsValue(SubSeq(ds, 1, Len(ds) - 1)) * 10 + DigitVal(ds[Len(ds)])

\* lexicographic order of two digit strings of the same length
RECURSIVE DigitsLeq(_, _)
DigitsLeq(a, b) ==
    IF a = <<>> THEN TRUE
    ELSE IF a[1] # b[1] THEN DigitVal(a[1]) < DigitVal(b[1])
    ELSE DigitsLeq(Tail(a), Tail(b))

I32MaxDigits == <<"2", "1", "4", "7", "4", "8", "3", "6", "4", "7">>

U32MaxDigits == <<"4", "2", "9", "4", "9", "6", "7", "2", "9", "5">>

\* a.parse::<u32>(): -1 for Err; -2 for an Ok value above i32::MAX (not
\* representable here; such a value is no valid date field); else the value
ParseU32(tok) ==
    LET body == IF tok # <<>> /\ tok[1] = "+" THEN Tail(tok) ELSE tok
        sig  == StripZeros(body)
    IN  IF body = <<>> \/ \E i \in 1..Len(body) : ~IsDigit(body[i]) THEN -1
        ELSE IF Len(sig) > 10 THEN -1
        ELSE IF Len(sig) < 10 THEN DigitsValue(sig)
        ELSE IF DigitsLeq(sig, I32MaxDigits) THEN DigitsValue(sig)
        ELSE IF DigitsLeq(sig, U32MaxDigits) THEN -2
        ELSE -1

\* Local.with_ymd_and_hms(y, m, d, h, mi, s) in zone z: the instant of
\* LocalResult::Single, -1 for LocalResult::None (no such date or time of
\* day, or a local time the zone skips), -2 for LocalResult::Ambiguous (a
\* local time the zone has twice)
WithYmdAndHmsIn(z, y, m, d, h, mi, s) ==
    IF /\ y >= 0 /\ y <= 262142
       /\ m >= 1 /\ m <= 12
       /\ d >= 1 /\ d <= DaysInMonth(y, m)
       /\ h >= 0 /\ h < 24 /\ mi >= 0 /\ mi < 60 /\ s >= 0 /\ s < 60
    THEN LET l == DaysFromCivil(y, m, d) * 86400 + h * 3600 + mi * 60 + s
             c == { u \in { l - z.before, l - z.after } : u + OffsetAt(z, u) = l }
         IN  IF c = {} THEN -1
             ELSE IF Cardinality(c) > 1 THEN -2
             ELSE CHOOSE u \in c : TRUE
    ELSE -1

WithYmdAndHms(y, m, d, h, mi, s) == WithYmdAndHmsIn(LocalZone, y, m, d, h, mi, s)

\* The outcome of the name handling of get_backups_sorted for one directory
\* name in zone z: "skip" (continue), "panic" (unwrap of LocalResult::None
\* or LocalResult::Ambiguous) or "ok" with the timestamp pushed.
ParseNameIn(z, name) ==
    LET parts == [i \in 1..Len(SplitName(name)) |-> ParseU32(SplitName(name)[i])]
    IN  IF Len(parts) # 6 THEN [kind |-> "skip", ts |-> 0]
        ELSE IF \E i \in 1..6 : parts[i] = -1 THEN [kind |-> "skip", ts |-> 0]
        ELSE LET t == WithYmdAndHmsIn(z, parts[1], parts[2], parts[3], parts[4], parts[5],
                                      parts[6])
             IN  IF t < 0 THEN [kind |-> "panic", ts |-> 0]
                 ELSE [kind |-> "ok", ts |-> t]

\* ParseName with lenient tokens: a token that does not parse takes a default value, as
\* test_folder_parsing does, instead of rejecting the name
ParseNameDefaulting(name) ==
    LET toks  == SplitName(name)
        dflt  == <<1970, 1, 1, 0, 0, 0>>
        parts == [i \in 1..Len(toks) |->
                    IF ParseU32(toks[i]) = -1 /\ i <= 6 THEN dflt[i] ELSE ParseU32(toks[i])]
    IN  IF Len(parts) # 6 THEN [kind |-> "skip", ts |-> 0]
        ELSE LET t == WithYmdAndHms(parts[1], parts[2], parts[3], parts[4], parts[5], parts[6])
             IN  IF t = -1 THEN [kind |-> "panic", ts |-> 0]
                 ELSE [kind |-> "ok", ts |-> t]

ParseName(name) == ParseNameIn(LocalZone, name)

(***************************************************************************)
(* The file system.  A path is a sequence of components.  The source tree  *)
(* (the install directory) is a set of nodes; the destination root holds   *)
(* entries, each with the nodes written below it.                          *)
(***************************************************************************)
Node(p, k, d) == [path |-> p, kind |-> k, data |-> d]

\* the install directory the snapshots are taken from (mc_path)
SourceTree ==
    { Node(<<"options.txt">>, "file", "opts"),
      Node(<<"saves">>, "dir", ""),
      Node(<<"saves", "icon.png">>, "file", "icon"),
      Node(<<"saves", "world">>, "dir", ""),
      Node(<<"saves", "world", "level.dat">>, "file", "level") }

\* the order in which read_dir yields the entries of the source directories
SourceOrder ==
    << <<"options.txt">>, <<"saves">>, <<"saves", "icon.png">>, <<"saves", "world">>,
       <<"saves", "world", "level.dat">> >>

Target(s, d) == [src |-> s, dst |-> d]

\* Configuration.targets values drawn by Init: (source-relative path,
\* destination-relative path) pairs in the style of TO_COPY
TargetLists ==
    { <<>>,
      << Target(<<"options.txt">>, <<>>), Target(<<"saves">>, <<"saves">>) >>,
      << Target(<<"saves">>, <<"saves">>), Target(<<"local">>, <<"local">>) >>,
      << Target(<<"local">>, <<"local">>), Target(<<"options.txt">>, <<>>) >> }

IsPrefix(p, q) == Len(p) <= Len(q) /\ SubSeq(q, 1, Len(p)) = p

Prefixes(p) == { SubSeq(p, 1, k) : k \in 1..Len(p) }

KindAt(tree, p) ==
    IF \E n \in tree : n.path = p THEN (CHOOSE n \in tree : n.path = p).kind ELSE "none"

\* the children of directory p in the source tree, in read_dir order
RECURSIVE ChildrenFrom(_, _)
ChildrenFrom(p, i) ==
    IF i > Len(SourceOrder) THEN <<>>
    ELSE IF Len(SourceOrder[i]) = Len(p) + 1 /\ IsPrefix(p, SourceOrder[i])
         THEN <<SourceOrder[i]>> \o ChildrenFrom(p, i + 1)
         ELSE ChildrenFrom(p, i + 1)

Children(p) == ChildrenFrom(p, 1)

\* create_dir_all(dst) below a snapshot directory holding `nodes`
CreateDirAll(nodes, dst) ==
    IF \E q \in Prefixes(dst) : KindAt(nodes, q) = "file"
    THEN [ok |-> FALSE, nodes |-> nodes]
    ELSE [ok |-> TRUE,
          nodes |-> nodes \cup { Node(q, "dir", "") : q \in { r \in Prefixes(dst) : KindAt(nodes, r) = "none" } }]

\* std::fs::copy(src, to): fails on an unreadable source or a directory at `to`
CopyFile(nodes, src, to, unreadable) ==
    IF src \in unreadable \/ KindAt(nodes, to) = "dir"
    THEN [ok |-> FALSE, nodes |-> nodes]
    ELSE [ok |-> TRUE,
          nodes |-> { n \in nodes : n.path # to }
                    \cup { Node(to, "file", (CHOOSE n \in SourceTree : n.path = src).data) }]

\* the loop of copy_dir_all making the subdirectories of src without going
\* into them
RECURSIVE CopyChildrenFlat(_, _, _, _, _)
CopyChildrenFlat(nodes, kids, i, dst, unreadable) ==
    IF i > Len(kids) THEN [ok |-> TRUE, nodes |-> nodes]
    ELSE The({ IF ~done.ok THEN done
               ELSE CopyChildrenFlat(done.nodes, kids, i + 1, dst, unreadable)
               : done \in UNION { { IF KindAt(SourceTree, kid) = "dir"
                                    THEN CreateDirAll(nodes, to)
                                    ELSE CopyFile(nodes, kid, to, unreadable)
                                    : to \in { Append(dst, kid[Len(kid)]) } }
                                  : kid \in { kids[i] } } })

\* copy_dir_all(src, dst): the nodes below the snapshot directory afterwards
\* and whether it returned Ok; the first error ends it, what was written stays
RECURSIVE CopyDirAll(_, _, _, _)
RECURSIVE CopyChildren(_, _, _, _, _)
CopyDirAll(nodes, src, dst, unreadable) ==
    The({ IF ~made.ok THEN made
          ELSE IF KindAt(SourceTree, src) = "file"
               THEN CopyFile(made.nodes, src, Append(dst, src[Len(src)]), unreadable)
          ELSE IF KindAt(SourceTree, src) = "none" \/ src \in unreadable
               THEN [ok |-> FALSE, nodes |-> made.nodes]
          ELSE CopyChildren(made.nodes, Children(src), 1, dst, unreadable)
          : made \in { CreateDirAll(nodes, dst) } })

CopyChildren(nodes, kids, i, dst, unreadable) ==
    IF i > Len(kids) THEN [ok |-> TRUE, nodes |-> nodes]
    ELSE The({ IF ~done.ok THEN done
               ELSE CopyChildren(done.nodes, kids, i + 1, dst, unreadable)
               : done \in UNION { { IF KindAt(SourceTree, kid) = "dir"
                                    THEN CopyDirAll(nodes, kid, to, unreadable)
                                    ELSE CopyFile(nodes, kid, to, unreadable)
                                    : to \in { Append(dst, kid[Len(kid)]) } }
                                  : kid \in { kids[i] } } })

(***************************************************************************)
(* The destination root (Configuration.path): a set of entries with        *)
(* distinct names.  `locked` marks a directory whose removal fails.        *)
(***************************************************************************)
Entry(n, k, l, ns) == [name |-> n, kind |-> k, locked |-> l, nodes |-> ns]

(***************************************************************************)
(* Destination roots drawn by Init.                                        *)
(***************************************************************************)
Snap(t, l) == Entry(FormatName(t), "dir", l, {})

\* entries that are no snapshots: a directory with one token, with five
\* tokens, with a token that is no integer, with a token above u32::MAX, and
\* a regular file named like a snapshot
ForeignEntries ==
    { Entry(<<"n", "o", "t", "e", "s">>, "dir", FALSE, {}),
      Entry(<<"2", "0", "2", "4", "-", "1", "2", "-", "3", "1", " ", "2", "3", "-", "5", "9">>, "dir", FALSE, {}),
      Entry(<<"2", "0", "2", "4", "-", "1", "2", "-", "3", "1", " ", "2", "3", "-", "5", "9", "-", "5", "x">>, "dir", FALSE, {}),
      Entry(<<"2", "0", "2", "4", "-", "1", "2", "-", "3", "1", " ", "2", "3", "-", "5", "9", "-", "4", "2", "9", "4", "9", "6", "7", "2", "9", "6">>, "dir", FALSE, {}),
      Entry(FormatName(StartTime - 7), "file", FALSE, {}) }

\* a directory with six integers that are no date (month 13)
BadDate == Entry(<<"2", "0", "2", "4", "-", "1", "3", "-", "0", "1", " ", "0", "0", "-", "0", "0", "-", "0", "0">>, "dir", FALSE, {})

\* a directory whose name parses to the instant StartTime + 2 without being
\* the name FormatName gives that instant (seconds written "059")
Unpadded == Entry(<<"2", "0", "2", "4", "-", "1", "2", "-", "3", "1", " ", "2", "3", "-", "5", "9", "-", "0", "5", "9">>, "dir", FALSE, {})

InitialRoots ==
    { {},
      { Snap(StartTime - 20, FALSE), Snap(StartTime - 10, FALSE) },
      { Snap(StartTime - 20, TRUE), Snap(StartTime - 10, FALSE) },
      { Snap(StartTime - 20, FALSE), Snap(StartTime - 10, TRUE), Snap(StartTime - 5, FALSE) },
      ForeignEntries \cup { Snap(StartTime - 10, FALSE) },
      { BadDate, Snap(StartTime - 10, FALSE) },
      { Unpadded, Snap(StartTime - 10, FALSE) },
      { Snap(StartTime + 100, FALSE), Snap(StartTime - 10, FALSE) },
      { Entry(FormatName(StartTime + 1), "file", FALSE, {}) } }

\* the names that can occur below the destination root within the bounds
KnownNames ==
    { e.name : e \in UNION InitialRoots }
        \cup { FormatName(t) : t \in StartTime..(StartTime + MaxTime) }

\* the table of ParseName over KnownNames
RECURSIVE ParseTable(_)
ParseTable(names) ==
    IF names = {} THEN <<>>
    ELSE The({ (n :> ParseName(n)) @@ ParseTable(names \ {n})
               : n \in { CHOOSE m \in names : TRUE } })

ParsedNames == ParseTable(KnownNames)

\* ParseName over the names that occur below the destination root
Parsed(name) == ParsedNames[name]

\* the directories get_backups_sorted pushes: those whose name parses
Managed(entries) ==
    { e \in entries : e.kind = "dir" /\ Parsed(e.name).kind = "ok" }

Stamp(e) == Parsed(e.name).ts

\* SortedSeqs with the comparison reversed (b.0.cmp(&a.0)), newest first
RECURSIVE SortedSeqsNewestFirst(_)
SortedSeqsNewestFirst(S) ==
    UNION UNION { IF T = {} THEN { { <<>> } }
            ELSE { { <<e>> \o rest : rest \in SortedSeqsNewestFirst(T \ {e}) } :
                   e \in { e \in T : \A f \in T : Stamp(e) >= Stamp(f) } }
            : T \in {S} }

\* dirs.sort_by(|a, b| a.0.cmp(&b.0)) over the entries in any read_dir order:
\* every ascending arrangement (equal timestamps in either order)
RECURSIVE SortedSeqs(_)
SortedSeqs(S) ==
    UNION UNION { IF T = {} THEN { { <<>> } }
                  ELSE { { <<e>> \o rest : rest \in SortedSeqs(T \ {e}) } :
                         e \in { e \in T : \A f \in T : Stamp(e) <= Stamp(f) } }
                  : T \in {S} }

\* get_backups_sorted(config): "err" when read_dir fails (no destination
\* root), "panic" when a directory name with six integers is no date, else
\* "ok" with the possible sorted vectors
GetBackupsSorted(entries, rootExists) ==
    IF ~rootExists THEN [kind |-> "err", lists |-> {}]
    ELSE IF \E e \in entries : e.kind = "dir" /\ Parsed(e.name).kind = "panic"
         THEN [kind |-> "panic", lists |-> {}]
    ELSE [kind |-> "ok", lists |-> SortedSeqs(Managed(entries))]

\* the loop of remove_old_backups over dirs[0 .. len - max): the number of
\* directories removed before it ends (at the first locked one, or at k)
RECURSIVE RemovedCount(_, _, _)
RemovedCount(dirs, i, k) ==
    IF i > k THEN k
    ELSE IF dirs[i].locked THEN i - 1
    ELSE RemovedCount(dirs, i + 1, k)

\* RemoveLoop with the loop bound one short (one directory too many stays)
RemoveLoopOneShort(entries, dirs, max) ==
    LET k    == IF Len(dirs) > max + 1 THEN Len(dirs) - max - 1 ELSE 0
        done == RemovedCount(dirs, 1, k)
        gone == { dirs[i] : i \in 1..done }
    IN  [result  |-> IF done < k THEN "err" ELSE "ok",
         entries |-> entries \ gone,
         removed |-> { e.name : e \in gone }]

\* RemoveLoop with the test dirs.len() >= max and the bound one long
RemoveLoopOneLong(entries, dirs, max) ==
    LET k    == IF Len(dirs) >= max /\ Len(dirs) > 0 THEN Len(dirs) - max + 1 ELSE 0
        kk   == Min(k, Len(dirs))
        done == RemovedCount(dirs, 1, kk)
        gone == { dirs[i] : i \in 1..done }
    IN  [result  |-> IF done < kk THEN "err" ELSE "ok",
         entries |-> entries \ gone,
         removed |-> { e.name : e \in gone }]

\* RemoveLoop taking the directories it removes from the newest end
RemoveLoopNewest(entries, dirs, max) ==
    LET k    == IF Len(dirs) > max THEN Len(dirs) - max ELSE 0
        gone == { dirs[i] : i \in (Len(dirs) - k + 1)..Len(dirs) }
    IN  [result  |-> IF \E e \in gone : e.locked THEN "err" ELSE "ok",
         entries |-> entries \ { e \in gone : ~e.locked },
         removed |-> { e.name : e \in { f \in gone : ~f.locked } }]

\* RemoveLoop going on to the next directory after a failed removal
RemoveLoopPastFailure(entries, dirs, max) ==
    LET k    == IF Len(dirs) > max THEN Len(dirs) - max ELSE 0
        gone == { dirs[i] : i \in { j \in 1..k : ~dirs[j].locked } }
    IN  [result  |-> IF \E i \in 1..k : dirs[i].locked THEN "err" ELSE "ok",
         entries |-> entries \ gone,
         removed |-> { e.name : e \in gone }]

RemoveLoop(entries, dirs, max) ==
    LET k    == IF Len(dirs) > max THEN Len(dirs) - max ELSE 0
        done == RemovedCount(dirs, 1, k)
        gone == { dirs[i] : i \in 1..done }
    IN  [result  |-> IF done < k THEN "err" ELSE "ok",
         entries |-> entries \ gone,
         removed |-> { e.name : e \in gone }]

\* remove_old_backups(config): the possible outcomes
RemoveOldBackups(entries, rootExists, max) ==
    UNION { IF got.kind # "ok"
            THEN { [result |-> got.kind, entries |-> entries, removed |-> {}] }
            ELSE { RemoveLoop(entries, dirs, max) : dirs \in got.lists }
            : got \in { GetBackupsSorted(entries, rootExists) } }

\* a loop over config.targets that goes on to the next pair after an error
\* and reports the error at its end
RECURSIVE CopyTargetsKeepGoing(_, _, _, _)
CopyTargetsKeepGoing(targets, i, nodes, unreadable) ==
    IF i > Len(targets) THEN [ok |-> TRUE, nodes |-> nodes]
    ELSE The({ The({ [ok |-> done.ok /\ rest.ok, nodes |-> rest.nodes]
                     : rest \in { CopyTargetsKeepGoing(targets, i + 1, done.nodes,
                                                       unreadable) } })
               : done \in { CopyDirAll(nodes, targets[i].src, targets[i].dst, unreadable) } })

\* the loop of back_up_files over config.targets, copying into new_dir
RECURSIVE CopyTargets(_, _, _, _)
CopyTargets(targets, i, nodes, unreadable) ==
    IF i > Len(targets) THEN [ok |-> TRUE, nodes |-> nodes]
    ELSE The({ IF ~done.ok THEN done
               ELSE CopyTargets(targets, i + 1, done.nodes, unreadable)
               : done \in { CopyDirAll(nodes, targets[i].src, targets[i].dst, unreadable) } })

\* a snapshot part that creates the new directory before it looks at the
\* list of targets
SnapshotIntoMkdirFirst(entries, rootExists, cfg, unreadable, name, same) ==
    IF \E e \in same : e.kind = "file"
    THEN [ok |-> FALSE, entries |-> entries, rootExists |-> rootExists]
    ELSE The({ The({ [ok |-> done.ok,
                      entries |-> (entries \ same)
                                  \cup { Entry(name, "dir", old.locked, done.nodes) },
                      rootExists |-> TRUE]
                     : done \in { CopyTargets(cfg.targets, 1, old.nodes, unreadable) } })
               : old \in { IF same = {} THEN Entry(name, "dir", FALSE, {})
                           ELSE CHOOSE e \in same : TRUE } })

\* the snapshot part of back_up_files, the new directory being named `name`
SnapshotInto(entries, rootExists, cfg, unreadable, name, same) ==
    IF cfg.targets = <<>>
    THEN [ok |-> TRUE, entries |-> entries, rootExists |-> rootExists]
    ELSE IF \E e \in same : e.kind = "file"
    THEN [ok |-> FALSE, entries |-> entries, rootExists |-> rootExists]
    ELSE The({ The({ [ok |-> done.ok,
                      entries |-> (entries \ same)
                                  \cup { Entry(name, "dir", old.locked, done.nodes) },
                      rootExists |-> TRUE]
                     : done \in { CopyTargets(cfg.targets, 1, old.nodes, unreadable) } })
               : old \in { IF same = {} THEN Entry(name, "dir", FALSE, {})
                           ELSE CHOOSE e \in same : TRUE } })

\* the snapshot part of back_up_files at instant t
TakeSnapshot(entries, rootExists, cfg, unreadable, t) ==
    The({ SnapshotInto(entries, rootExists, cfg, unreadable, name,
                       { e \in entries : e.name = name })
          : name \in { FormatName(t) } })

\* back_up_files(source, config) at instant t: the possible outcomes
BackUpFiles(entries, rootExists, cfg, unreadable, t) ==
    UNION { IF ~snap.ok
            THEN { [result |-> "err", entries |-> snap.entries,
                    rootExists |-> snap.rootExists, removed |-> {}] }
            ELSE { [result |-> r.result, entries |-> r.entries,
                    rootExists |-> snap.rootExists, removed |-> r.removed] :
                   r \in RemoveOldBackups(snap.entries, snap.rootExists, cfg.max_backups) }
            : snap \in { TakeSnapshot(entries, rootExists, cfg, unreadable, t) } }

(***************************************************************************)
(* State.                                                                  *)
(***************************************************************************)
VARIABLES
    now,         \* the clock, seconds of Unix time
    entries,     \* the entries below the destination root
    rootExists,  \* whether the destination root directory exists
    config,      \* app.configuration: frequency, targets, max_backups
    unreadable,  \* source paths whose read fails (permissions)
    last,        \* the last call of back_up_files / remove_old_backups
    taken,       \* instants of the successful back_up_files calls so far
    entries0,    \* the entries below the destination root at the start
    until,       \* the last instant of the run
    \* shared between the threads (main.rs 65-74)
    lock,        \* holder of the Mutex around App: "free", "worker", "control"
    poisoned,    \* the Mutex is poisoned (a thread panicked holding it)
    nextBackup,  \* app.next_backup
    exitFlag,    \* exit_flag
    timerChange, \* timer_change
    manualBackup,     \* manual_backup
    workerErrorFlag,  \* worker_error_flag
    token,       \* the park token of the worker thread (set by unpark)
    \* the worker thread (main.rs 76-135)
    wpc,         \* where the worker is
    start,       \* start
    sleepFor,    \* sleep_for
    useDiffTime, \* use_diff_time
    diffTime,    \* diff_time
    diff,        \* diff
    deadline,    \* the instant at which park_timeout times out
    nextAt,      \* SystemTime::now() + sleep_for, as evaluated for next_backup
    \* the control thread (main.rs 141-578)
    cpc,         \* where the control thread is
    poll,        \* the instant event::poll was called and its timeout
    key,         \* the key read, and the instant `now` taken for it
    mainDebounce,     \* main_debounce
    retval,      \* retval
    runResult,   \* what run() returned
    \* history
    wake,        \* the worker's last wake: whether the sleep had run its length,
                 \* the flags as they were, and whether a manual backup is
                 \* waiting since a retime request was answered before it
    runs,        \* back_up_files calls the worker started since its last wait ended
    lateRuns,    \* back_up_files calls the worker started with exit_flag set
    keysLeft,    \* key presses the run still sends
    retimeUnseen,     \* a retime request was made that no wake of the worker
                      \* has answered by its retime branch yet
    pressLog,         \* for each key, the instant of its last press handled on
                      \* the Main screen (-1: none)
    manualPresses,    \* presses of 'm' that passed the debounce gate and set manual_backup
    manualRuns,       \* back_up_files calls the worker started on its manual branch
    queuedWake,       \* the park token was set while the worker was not in
                      \* park_timeout, and is still there
    \* the screen (main.rs 141-145, 593; app.rs 579-583)
    screen,      \* app.current_screen
    action,      \* action
    selected,    \* state.backups.selected(): an index from 0, -1 for None
    picked,      \* the name shown at the selected index when the list of
                 \* backups was last rendered
    \* a function called on its own
    call,        \* the function and its arguments
    ret          \* what it returned, once it has

fsVars == <<entries, rootExists, config, unreadable>>

sharedVars == <<lock, poisoned, nextBackup, exitFlag, timerChange, manualBackup,
                workerErrorFlag, token>>

workerVars == <<wpc, start, sleepFor, useDiffTime, diffTime, diff, deadline, nextAt>>

controlVars == <<cpc, poll, key, mainDebounce, retval, runResult>>

historyVars == <<wake, runs, lateRuns, keysLeft, retimeUnseen, queuedWake, pressLog,
                manualPresses, manualRuns>>

uiVars == <<screen, action, selected, picked>>

schedVars == <<sharedVars, workerVars, controlVars, historyVars, uiVars>>

vars == <<now, entries, rootExists, config, unreadable, last, taken, entries0, until,
          schedVars, call, ret>>

\* no function is called on its own
NoApply == [fn |-> "none"]

NoRet == [done |-> FALSE]

Idle == call = NoApply /\ ret = NoRet

\* the keys the control thread is sent on the Main screen
Keys == { "m", "q" }

\* the keys it is sent to go to the list of backups, move in it and delete
\* from it
BackupsKeys == { "b", "d", "y", "Down" }

\* the keys it is sent to go to the list of backups and to delete or restore
\* the item selected there
RestoreKeys == { "b", "d", "r", "y" }

AllKeys == Keys \cup BackupsKeys \cup RestoreKeys

\* no name shown at the selected index
NoName == <<>>

NoKey == [code |-> "none", at |-> 0]

NoWake ==
    [late |-> FALSE, retime |-> FALSE, manual |-> FALSE, deferred |-> FALSE, queued |-> FALSE]

NoPoll == [at |-> 0, wrapped |-> FALSE, ms |-> 0]

\* the threads as run() starts them (main.rs 65-78, 141-145; App::new)
SchedInit ==
    /\ lock = "free" /\ poisoned = FALSE
    /\ nextBackup = 0
    /\ exitFlag = FALSE /\ timerChange = FALSE /\ manualBackup = FALSE
    /\ workerErrorFlag = FALSE /\ token = FALSE
    /\ wpc = "head" /\ start = 0 /\ sleepFor = 0
    /\ useDiffTime = FALSE /\ diffTime = 0 /\ diff = 0 /\ deadline = 0 /\ nextAt = 0
    /\ cpc = "draw" /\ poll = NoPoll /\ key = NoKey
    /\ mainDebounce = [k \in AllKeys |-> -1]
    /\ screen = "Main" /\ action = "None" /\ selected = 0 /\ picked = NoName
    /\ retval = "none" /\ runResult = "none"
    /\ wake = NoWake /\ runs = 0 /\ lateRuns = 0 /\ retimeUnseen = FALSE
    /\ queuedWake = FALSE
    /\ pressLog = [k \in AllKeys |-> -1]
    /\ manualPresses = 0 /\ manualRuns = 0

DefaultTargets == << Target(<<"options.txt">>, <<>>), Target(<<"saves">>, <<"saves">>) >>

Config(f, ts, m) == [frequency |-> f, targets |-> ts, max_backups |-> m]

\* `fresh`: the call created a snapshot directory whose name was not there;
\* `cfg`: the configuration the call was given
NoCall ==
    [op |-> "none", result |-> "ok", before |-> 0, removed |-> {}, fresh |-> FALSE,
     cfg |-> Config(0, <<>>, 0)]

Call(op, out, before, fresh) ==
    [op |-> op, result |-> out.result, before |-> before, removed |-> out.removed,
     fresh |-> fresh, cfg |-> config]

\* back_up_files at instant t makes a directory that was not there before
MakesNewDir(es, cfg, t) ==
    cfg.targets # <<>> /\ ~\E e \in es : e.name = FormatName(t)

(***************************************************************************)
(* SpecFS: back_up_files and remove_old_backups called, at any instants,   *)
(* on the destination roots and configurations drawn by InitFS.            *)
(***************************************************************************)
InitFS ==
    /\ now = StartTime
    /\ \/ /\ entries = {}
          /\ rootExists = TRUE
          /\ config \in { Config(Interval, DefaultTargets, m) : m \in 0..MaxCap }
          /\ unreadable = {}
          /\ until = StartTime + MaxTime
       \/ /\ entries = {}
          /\ rootExists \in BOOLEAN
          /\ config \in { Config(Interval, ts, 1) : ts \in TargetLists }
          /\ unreadable \in { {}, { <<"saves", "world", "level.dat">> } }
          /\ until = StartTime + ShortTime
       \/ /\ entries \in InitialRoots \ { {} }
          /\ rootExists = TRUE
          /\ config \in { Config(Interval, ts, m) : ts \in { DefaultTargets, <<>> }, m \in 0..2 }
          /\ unreadable = {}
          /\ until = StartTime + ShortTime
       \/ /\ entries = { Snap(StartTime - 20, FALSE), Snap(StartTime - 10, FALSE) }
          /\ rootExists = TRUE
          /\ config \in { Config(Interval, ts, 1) : ts \in TargetLists }
          /\ unreadable = { <<"saves", "world", "level.dat">> }
          /\ until = StartTime + ShortTime
    /\ last = NoCall
    /\ taken = {}
    /\ entries0 = entries
    /\ SchedInit
    /\ keysLeft = 0
    /\ Idle

\* back_up_files(&source, &config) called now
CallBackUpFiles ==
    \E out \in BackUpFiles(entries, rootExists, config, unreadable, now) :
        /\ entries' = out.entries
        /\ rootExists' = out.rootExists
        /\ last' = Call("back_up_files", out, Cardinality(Managed(entries)),
                        MakesNewDir(entries, config, now))
        /\ taken' = IF out.result = "ok" THEN taken \cup {now} ELSE taken
        /\ UNCHANGED <<call, ret, now, config, unreadable, entries0, until, schedVars>>

\* remove_old_backups(&config) called now
CallRemoveOldBackups ==
    \E out \in RemoveOldBackups(entries, rootExists, config.max_backups) :
        /\ entries' = out.entries
        /\ last' = Call("remove_old_backups", out, Cardinality(Managed(entries)), FALSE)
        /\ UNCHANGED <<call, ret, now, rootExists, config, unreadable, taken, entries0, until, schedVars>>

\* a second passes
TickFS ==
    /\ now < until
    /\ now' = now + 1
    /\ UNCHANGED <<call, ret, entries, rootExists, config, unreadable, last, taken, entries0, until,
                   schedVars>>

NextFS == CallBackUpFiles \/ CallRemoveOldBackups \/ TickFS

SpecFS == InitFS /\ [][NextFS]_vars

(***************************************************************************)
(* Retention claims, checked under SpecFS.                                 *)
(***************************************************************************)
Count(es) == Cardinality(Managed(es))

DirNames(es) == { e.name : e \in { d \in es : d.kind = "dir" } }

\* the k largest elements of a set of numbers
Latest(S, k) == { t \in S : Cardinality({ u \in S : u > t }) < k }

\* C1: right after a successful back_up_files call the number of managed
\* snapshot directories is at most max_backups; and after 7 successful calls
\* at distinct seconds with max_backups = 5, from an empty destination root,
\* exactly the 5 latest snapshot directories are there, the 2 oldest are not.
C1_CapAfterBackup ==
    (last.op = "back_up_files" /\ last.result = "ok") =>
        /\ Count(entries) <= config.max_backups
        /\ (entries0 = {} /\ config.max_backups = 5 /\ config.targets # <<>>
              /\ Cardinality(taken) = 7) =>
               /\ Cardinality(DirNames(entries)) = 5
               /\ DirNames(entries) = { FormatName(t) : t \in Latest(taken, 5) }
               /\ \A t \in taken \ Latest(taken, 5) : FormatName(t) \notin DirNames(entries)

C1_Witness ==
    /\ last.op = "back_up_files" /\ last.result = "ok"
    /\ entries0 = {} /\ config.max_backups = 5 /\ Cardinality(taken) = 7
    /\ Cardinality(entries) = 5

\* C2: a remove_old_backups call that returns Ok, on n managed snapshots with
\* cap m, removes exactly the n - m snapshots with the smallest timestamps
\* when n > m, removes nothing when n <= m, and changes nothing else.
C2_PruneOldest ==
    [][ (last'.op = "remove_old_backups" /\ last'.result = "ok") =>
          LET n    == Count(entries)
              m    == config.max_backups
              gone == entries \ entries'
          IN  /\ entries' \subseteq entries
              /\ gone \subseteq Managed(entries)
              /\ Cardinality(gone) = IF n > m THEN n - m ELSE 0
              /\ \A g \in gone : \A k \in Managed(entries') : Stamp(g) <= Stamp(k)
              /\ Count(entries') = Min(n, m)
      ]_vars

C2_Witness ==
    /\ last.op = "remove_old_backups" /\ last.result = "ok"
    /\ Cardinality(last.removed) = 2
    /\ Count(entries) = 1

\* C3 as stated: after every successful back_up_files call the number of
\* managed snapshots is min(number before + 1, max_backups).
C3_AlwaysOneMore ==
    (last.op = "back_up_files" /\ last.result = "ok") =>
        Count(entries) = Min(last.before + 1, config.max_backups)

\* C3 amended: after a successful back_up_files call the number of managed
\* snapshots is min(number before + 1, max_backups) when the call made a new
\* snapshot directory, and min(number before, max_backups) when it did not
\* (empty target list, or a directory of that second already there).
C3_OneMoreWhenNew ==
    (last.op = "back_up_files" /\ last.result = "ok") =>
        Count(entries) = Min(last.before + (IF last.fresh THEN 1 ELSE 0), config.max_backups)

C3_Witness ==
    /\ last.op = "back_up_files" /\ last.result = "ok" /\ last.fresh
    /\ last.before = 2 /\ config.max_backups = 2 /\ Count(entries) = 2

\* a token that is a non-negative integer: digits, with or without a "+"
IsIntegerToken(tok) ==
    LET body == IF tok # <<>> /\ tok[1] = "+" THEN Tail(tok) ELSE tok
    IN  body # <<>> /\ \A i \in 1..Len(body) : IsDigit(body[i])

Foreign(e) ==
    \/ e.kind # "dir"
    \/ Len(SplitName(e.name)) # 6
    \/ \E i \in 1..Len(SplitName(e.name)) : ~IsIntegerToken(SplitName(e.name)[i])

\* C4: an entry that is no directory, or whose name does not split into
\* exactly 6 non-negative integers, is never in the result of
\* get_backups_sorted and is never removed or changed by a cycle.
C4_ForeignUntouched ==
    /\ \A e \in entries0 : Foreign(e) => e \in entries
    /\ \A dirs \in GetBackupsSorted(entries, rootExists).lists :
           \A i \in 1..Len(dirs) : ~Foreign(dirs[i])

C4_Witness ==
    /\ \E e \in entries0 : Foreign(e) /\ e.kind = "dir"
    /\ \E e \in entries0 : Foreign(e) /\ e.kind = "file"
    /\ last.result = "ok" /\ last.removed # {}
    /\ \A e \in entries0 : Foreign(e) => e \in entries

(***************************************************************************)
(* Claims on failures of the copy and of the removal, under SpecFS.        *)
(***************************************************************************)
\* the copy of target pair t cannot succeed: its source is missing, or is
\* or holds a file that cannot be read
TargetFails(t) ==
    \/ KindAt(SourceTree, t.src) = "none"
    \/ \E u \in unreadable : IsPrefix(t.src, u)

\* the index of the first pair of the target list that fails, 0 when none
FirstFailing(targets) ==
    IF \E i \in 1..Len(targets) : TargetFails(targets[i])
    THEN CHOOSE i \in 1..Len(targets) :
            TargetFails(targets[i]) /\ \A j \in 1..(i - 1) : ~TargetFails(targets[j])
    ELSE 0

\* where the copy of pair t puts source node p below the snapshot directory
Placed(t, p) ==
    IF KindAt(SourceTree, t.src) = "file" THEN Append(t.dst, p[Len(p)])
    ELSE t.dst \o SubSeq(p, Len(t.src) + 1, Len(p))

\* the position of source path p in the order of read_dir
OrderOf(p) == CHOOSE i \in 1..Len(SourceOrder) : SourceOrder[i] = p

\* the source files of pair t that are copied before its first unreadable one
\* (all of them when none is unreadable)
CopiedFiles(t) ==
    { n \in SourceTree :
        /\ n.kind = "file" /\ IsPrefix(t.src, n.path)
        /\ \A u \in unreadable : IsPrefix(t.src, u) => OrderOf(n.path) < OrderOf(u) }

\* the snapshot directory named for instant t, as a set (empty when absent)
NewDir(es, t) == { e \in es : e.name = FormatName(t) /\ e.kind = "dir" }

\* C13: a back_up_files call whose list has a pair that fails to copy (a
\* missing source among them) returns Err; the pairs after the first
\* failing one have left nothing in the snapshot directory; no entry that
\* was below the destination root is removed (no prune); the files of the
\* earlier pairs, and those of the failing pair copied before the error,
\* are in the snapshot directory.
C13_FirstCopyErrorAborts ==
    [][ (last' # last /\ last'.op = "back_up_files"
         /\ FirstFailing(config.targets) > 0) =>
        LET ts == config.targets
            i  == FirstFailing(ts)
        IN  /\ last'.result = "err"
            /\ last'.removed = {}
            /\ \A e \in entries : e.name # FormatName(now) => e \in entries'
            /\ NewDir(entries', now) # {}
            /\ \A d \in NewDir(entries', now) :
                 /\ \A j \in (i + 1)..Len(ts) : \A n \in d.nodes :
                        ~IsPrefix(ts[j].dst, n.path) \/ ts[j].dst = <<>>
                 /\ \A j \in (i + 1)..Len(ts) : \A f \in CopiedFiles(ts[j]) :
                        KindAt(d.nodes, Placed(ts[j], f.path)) = "none"
                 /\ \A j \in 1..i : \A f \in CopiedFiles(ts[j]) :
                        Node(Placed(ts[j], f.path), "file", f.data) \in d.nodes
      ]_vars

\* a call failed on the unreadable level.dat of the second pair: the two
\* snapshots above the cap of 1 are still there, options.txt and icon.png
\* are in the new directory, level.dat is not
C13_Witness ==
    /\ last.op = "back_up_files" /\ last.result = "err"
    /\ config.targets = DefaultTargets /\ config.max_backups = 1
    /\ entries0 # {} /\ entries0 \subseteq entries
    /\ \E d \in entries : /\ d \notin entries0
                           /\ KindAt(d.nodes, <<"options.txt">>) = "file"
                           /\ KindAt(d.nodes, <<"saves", "icon.png">>) = "file"
                           /\ KindAt(d.nodes, <<"saves", "world">>) = "dir"
                           /\ KindAt(d.nodes, <<"saves", "world", "level.dat">>) = "none"

\* the snapshots above the cap: those with fewer than n - max older ones
Excess(es, max) ==
    { e \in Managed(es) :
        Cardinality({ g \in Managed(es) : Stamp(g) < Stamp(e) }) < Count(es) - max }

\* the snapshots above the cap whose removal fails
Stuck(es, max) == { e \in Excess(es, max) : e.locked }

\* C14: a remove_old_backups call on a root where the removal of a snapshot
\* above the cap fails returns Err; the snapshots older than the oldest
\* failing one are removed, and nothing else: the failing one and all newer
\* ones stay.
C14_StopsAtFirstFailure ==
    [][ (last' # last /\ last'.op = "remove_old_backups"
         /\ Stuck(entries, config.max_backups) # {}) =>
        LET bad == Stuck(entries, config.max_backups)
            f   == CHOOSE e \in bad : \A g \in bad : Stamp(e) <= Stamp(g)
        IN  /\ last'.result = "err"
            /\ entries' = entries \ { e \in Managed(entries) : Stamp(e) < Stamp(f) }
            /\ last'.removed = { e.name : e \in entries \ entries' }
      ]_vars

\* with cap 0 and the second oldest of three snapshots failing, the oldest is
\* gone, the failing one and the newest are there
C14_Witness ==
    /\ last.op = "remove_old_backups" /\ last.result = "err"
    /\ config.max_backups = 0
    /\ Cardinality(entries0) = 3 /\ Cardinality(last.removed) = 1
    /\ entries = { e \in entries0 : e.name \notin last.removed }
    /\ \E e \in entries : e.locked /\ \E g \in entries : Stamp(g) > Stamp(e)

\* the source nodes below a directory target t (t.src itself left out)
Subtree(t) == { n \in SourceTree : IsPrefix(t.src, n.path) /\ n.path # t.src }

\* C21: after a back_up_files call none of whose pairs fails to copy, the new
\* snapshot directory (while retention leaves it there) holds, for a pair
\* whose source is a regular file and whose destination is empty, a file of
\* the source's name and content directly below it; and for a pair whose
\* source is a directory, the directory dst and below it every directory and
\* file of the source's subtree, at the same relative path, with the same
\* content.
C21_SnapshotLayout ==
    [][ (last' # last /\ last'.op = "back_up_files"
         /\ config.targets # <<>> /\ FirstFailing(config.targets) = 0) =>
        \A d \in NewDir(entries', now) :
          \A i \in 1..Len(config.targets) :
            LET t == config.targets[i]
            IN  /\ (KindAt(SourceTree, t.src) = "file" /\ t.dst = <<>>) =>
                      \E n \in SourceTree :
                          /\ n.path = t.src
                          /\ Node(<<t.src[Len(t.src)]>>, "file", n.data) \in d.nodes
                /\ KindAt(SourceTree, t.src) = "dir" =>
                      /\ KindAt(d.nodes, t.dst) = "dir"
                      /\ \A n \in Subtree(t) :
                            Node(t.dst \o SubSeq(n.path, Len(t.src) + 1, Len(n.path)),
                                 n.kind, n.data) \in d.nodes
      ]_vars

\* a call with the default pairs returned Ok and its directory is there:
\* options.txt directly below it, saves with icon.png, world and
\* world/level.dat below saves
C21_Witness ==
    /\ last.op = "back_up_files" /\ last.result = "ok" /\ last.fresh
    /\ config.targets = DefaultTargets /\ unreadable = {}
    /\ \E d \in NewDir(entries, now) :
          /\ Node(<<"options.txt">>, "file", "opts") \in d.nodes
          /\ Node(<<"saves", "world", "level.dat">>, "file", "level") \in d.nodes
          /\ Cardinality(d.nodes) = Cardinality(SourceTree)

(***************************************************************************)
(* The worker thread and the control thread of run() (main.rs).            *)
(***************************************************************************)
\* an f64: "finite" with `val` whole seconds, "huge" (finite, above
\* Duration::MAX), "nan", "inf" or "-inf"
F64(k, v) == [kind |-> k, val |-> v]

None == [some |-> FALSE, val |-> F64("finite", 0)]

Some(x) == [some |-> TRUE, val |-> x]

\* val < 0.0 (false of NaN)
F64Negative(x) == x.kind = "-inf" \/ (x.kind = "finite" /\ x.val < 0)

\* stands for a panic that leaves duration_compare instead of a Duration
Unwound == -1

\* Duration::from_secs_f64(secs) panics when secs is negative, overflows
\* Duration or is not finite
FromSecsF64(x) == IF x.kind = "finite" /\ x.val >= 0 THEN x.val ELSE Unwound

\* duration_compare(left, right, on_error): left - right panics when
\* right > left (Duration cannot be negative); that panic is caught and the
\* fallback made by Duration::from_secs_f64, outside catch_unwind
DurationCompare(left, right, on_error) ==
    IF left >= right THEN left - right
    ELSE IF on_error.some
    THEN FromSecsF64(IF F64Negative(on_error.val) THEN F64("finite", 0) ELSE on_error.val)
    ELSE FromSecsF64(F64("finite", 0))

\* the seconds of the debounce window given to is_debounced on the Main screen
DebounceSecs == 2

\* is_debounced with a gate that is closed for a key without an entry
IsDebouncedClosed(k, timestamp, tracker, duration) ==
    IF tracker[k] = -1 THEN FALSE
    ELSE IF timestamp < tracker[k] THEN TRUE
    ELSE (timestamp - tracker[k]) * 1000 >= duration * 1000

\* is_debounced(key, timestamp, tracker, duration); -1 stands for no entry;
\* a negative num_milliseconds() cast to u128 exceeds every duration
IsDebounced(k, timestamp, tracker, duration) ==
    IF tracker[k] = -1 THEN TRUE
    ELSE IF timestamp < tracker[k] THEN TRUE
    ELSE (timestamp - tracker[k]) * 1000 >= duration * 1000

\* the argument of event::poll: (next_backup.timestamp_millis()
\* - start.timestamp_millis() - 1) as u64; a negative difference wraps to a
\* value near 2^64 (`wrapped`, with no deadline in reach)
PollTimeout(next, t) ==
    IF next <= t THEN [at |-> t, wrapped |-> TRUE, ms |-> 0]
    ELSE [at |-> t, wrapped |-> FALSE, ms |-> (next - t) * 1000 - 1]

fsRest == <<last, taken, entries0, until>>

\* a scheduled branch taken only when the sleep overran its length
IsDueStrict(d, sleep_for) == d > sleep_for

\* a scheduled branch taken at every wake
IsDueAlways(d, sleep_for) == TRUE

\* if diff >= sleep_for (main.rs 96)
IsDue(d, sleep_for) == d >= sleep_for

\* a loop head that never looks at exit_flag
WHeadDeaf ==
    /\ wpc = "head"
    /\ start' = now
    /\ IF useDiffTime
       THEN /\ sleepFor' = diffTime /\ useDiffTime' = FALSE /\ wpc' = "set_next"
            /\ nextAt' = now + diffTime
       ELSE UNCHANGED <<sleepFor, useDiffTime, nextAt>> /\ wpc' = "read_freq"
    /\ UNCHANGED <<call, ret, uiVars, now, fsVars, fsRest, sharedVars, diffTime, diff, deadline, controlVars,
                   historyVars>>

\* a loop head that takes diff_time and leaves use_diff_time set
WHeadKeepsPending ==
    /\ wpc = "head"
    /\ IF exitFlag
       THEN /\ wpc' = "done"
            /\ UNCHANGED <<start, sleepFor, nextAt>>
       ELSE /\ start' = now
            /\ IF useDiffTime
               THEN sleepFor' = diffTime /\ wpc' = "set_next" /\ nextAt' = now + diffTime
               ELSE UNCHANGED <<sleepFor, nextAt>> /\ wpc' = "read_freq"
    /\ UNCHANGED <<call, ret, uiVars, now, fsVars, fsRest, sharedVars, useDiffTime, diffTime, diff,
                   deadline, controlVars, historyVars>>

\* while !exit_flag.load(..): the loop ends, or the iteration starts and
\* picks sleep_for from diff_time (main.rs 79-85)
WHead ==
    /\ wpc = "head"
    /\ IF exitFlag
       THEN /\ wpc' = "done"
            /\ UNCHANGED <<start, sleepFor, useDiffTime, nextAt>>
       ELSE /\ start' = now
            /\ IF useDiffTime
               THEN /\ sleepFor' = diffTime /\ useDiffTime' = FALSE /\ wpc' = "set_next"
                    /\ nextAt' = now + diffTime
               ELSE UNCHANGED <<sleepFor, useDiffTime, nextAt>> /\ wpc' = "read_freq"
    /\ UNCHANGED <<call, ret, uiVars, now, fsVars, fsRest, sharedVars, diffTime, diff, deadline, controlVars,
                   historyVars>>

\* sleep_for = safe_app_copy.lock().unwrap().configuration.frequency (main.rs 86)
WReadFreq ==
    /\ wpc = "read_freq" /\ lock = "free"
    /\ IF poisoned
       THEN wpc' = "panicked" /\ UNCHANGED <<sleepFor, nextAt>>
       ELSE /\ wpc' = "set_next" /\ sleepFor' = config.frequency
            /\ nextAt' = now + config.frequency
    /\ UNCHANGED <<call, ret, uiVars, now, fsVars, fsRest, sharedVars, start, useDiffTime, diffTime, diff,
                   deadline, controlVars, historyVars>>

\* next_backup is assigned under the lock; in an assignment the value is
\* evaluated before the place, so that SystemTime::now() + sleep_for was taken
\* before the lock was waited for; then park_timeout(sleep_for) is entered
\* (main.rs 89-92)
WSetNext ==
    /\ wpc = "set_next" /\ lock = "free"
    /\ IF poisoned
       THEN wpc' = "panicked" /\ UNCHANGED <<nextBackup, deadline>>
       ELSE wpc' = "park" /\ nextBackup' = nextAt /\ deadline' = now + sleepFor
    /\ UNCHANGED <<call, ret, uiVars, now, fsVars, fsRest, lock, poisoned, exitFlag, timerChange, manualBackup,
                   workerErrorFlag, token, start, sleepFor, useDiffTime, diffTime, diff, nextAt,
                   controlVars, historyVars>>

\* a wake whose manual branch leaves manual_backup set
WWakeByKeepManual(cause) ==
    /\ wpc = "park"
    /\ cause = "unpark" => token
    /\ cause = "timeout" => now >= deadline
    /\ cause = "spurious" => ~token /\ now < deadline
    /\ token' = FALSE
    /\ diff' = now - start
    /\ wake' = [late |-> now - start >= sleepFor, retime |-> timerChange,
                manual |-> manualBackup,
                deferred |->
                    IF IsDue(now - start, sleepFor) THEN wake.deferred
                    ELSE IF timerChange THEN (wake.deferred \/ retimeUnseen) /\ manualBackup
                    ELSE FALSE,
                queued |-> queuedWake]
    /\ queuedWake' = FALSE
    /\ runs' = 0
    /\ IF IsDue(now - start, sleepFor)
       THEN wpc' = "lock_sched" /\ UNCHANGED manualBackup
       ELSE IF timerChange
       THEN wpc' = "retime" /\ UNCHANGED manualBackup
       ELSE IF manualBackup
       THEN wpc' = "lock_manual" /\ UNCHANGED manualBackup
       ELSE wpc' = "head" /\ UNCHANGED manualBackup
    /\ retimeUnseen' = (retimeUnseen /\ (IsDue(now - start, sleepFor) \/ ~timerChange))
    /\ UNCHANGED <<call, ret, uiVars, now, fsVars, fsRest, lock, poisoned, nextBackup, exitFlag, timerChange,
                   workerErrorFlag, start, sleepFor, useDiffTime, diffTime, deadline, nextAt,
                   controlVars, lateRuns, keysLeft, pressLog, manualPresses, manualRuns>>

\* park_timeout returns by the token of an unpark, at its timeout, or
\* spuriously; diff is taken and the branch chosen; manual_backup is swapped
\* to false on its branch (main.rs 92-96, 106-115)
WWakeBy(cause) ==
    /\ wpc = "park"
    /\ cause = "unpark" => token
    /\ cause = "timeout" => now >= deadline
    /\ cause = "spurious" => ~token /\ now < deadline
    /\ token' = FALSE
    /\ diff' = now - start
    /\ wake' = [late |-> now - start >= sleepFor, retime |-> timerChange,
                manual |-> manualBackup,
                deferred |->
                    IF IsDue(now - start, sleepFor) THEN wake.deferred
                    ELSE IF timerChange THEN (wake.deferred \/ retimeUnseen) /\ manualBackup
                    ELSE FALSE,
                queued |-> queuedWake]
    /\ queuedWake' = FALSE
    /\ runs' = 0
    /\ IF IsDue(now - start, sleepFor)
       THEN wpc' = "lock_sched" /\ UNCHANGED manualBackup
       ELSE IF timerChange
       THEN wpc' = "retime" /\ UNCHANGED manualBackup
       ELSE IF manualBackup
       THEN wpc' = "lock_manual" /\ manualBackup' = FALSE
       ELSE wpc' = "head" /\ UNCHANGED manualBackup
    /\ retimeUnseen' = (retimeUnseen /\ (IsDue(now - start, sleepFor) \/ ~timerChange))
    /\ UNCHANGED <<call, ret, uiVars, now, fsVars, fsRest, lock, poisoned, nextBackup, exitFlag, timerChange,
                   workerErrorFlag, start, sleepFor, useDiffTime, diffTime, deadline, nextAt,
                   controlVars, lateRuns, keysLeft, pressLog, manualPresses, manualRuns>>

WWake == \E cause \in { "unpark", "timeout", "spurious" } : WWakeBy(cause)

\* a back_up_files call given a clone of the configuration, the guard
\* dropped before the call
WBackupStartOnClone ==
    /\ wpc \in { "lock_sched", "lock_manual" } /\ lock = "free"
    /\ IF poisoned
       THEN /\ wpc' = "panicked"
            /\ UNCHANGED <<fsVars, last, lock, runs, lateRuns, manualRuns>>
       ELSE \E out \in BackUpFiles(entries, rootExists, config, unreadable, now) :
            /\ wpc' = IF wpc = "lock_sched" THEN "in_sched" ELSE "in_manual"
            /\ lock' = "free"
            /\ entries' = out.entries
            /\ rootExists' = out.rootExists
            /\ last' = Call("back_up_files", out, Cardinality(Managed(entries)),
                            MakesNewDir(entries, config, now))
            /\ runs' = runs + 1
            /\ lateRuns' = IF exitFlag THEN lateRuns + 1 ELSE lateRuns
            /\ manualRuns' = IF wpc = "lock_manual" THEN manualRuns + 1 ELSE manualRuns
            /\ UNCHANGED <<config, unreadable>>
    /\ UNCHANGED <<call, ret, uiVars, now, taken, entries0, until, poisoned, nextBackup, exitFlag, timerChange,
                   manualBackup, workerErrorFlag, token, start, sleepFor, useDiffTime,
                   diffTime, diff, deadline, nextAt, controlVars, wake, keysLeft, retimeUnseen,
                   queuedWake, pressLog, manualPresses>>

\* back_up_files(&mc_path, &safe_app_copy.lock().unwrap().configuration) is
\* entered: the lock is taken and held, the snapshot is named by the instant
\* of the call (main.rs 97, 116; app.rs 527-537)
WBackupStart ==
    /\ wpc \in { "lock_sched", "lock_manual" } /\ lock = "free"
    /\ IF poisoned
       THEN /\ wpc' = "panicked"
            /\ UNCHANGED <<fsVars, last, lock, runs, lateRuns, manualRuns>>
       ELSE \E out \in BackUpFiles(entries, rootExists, config, unreadable, now) :
            /\ wpc' = IF wpc = "lock_sched" THEN "in_sched" ELSE "in_manual"
            /\ lock' = "worker"
            /\ entries' = out.entries
            /\ rootExists' = out.rootExists
            /\ last' = Call("back_up_files", out, Cardinality(Managed(entries)),
                            MakesNewDir(entries, config, now))
            /\ runs' = runs + 1
            /\ lateRuns' = IF exitFlag THEN lateRuns + 1 ELSE lateRuns
            /\ manualRuns' = IF wpc = "lock_manual" THEN manualRuns + 1 ELSE manualRuns
            /\ UNCHANGED <<config, unreadable>>
    /\ UNCHANGED <<call, ret, uiVars, now, taken, entries0, until, poisoned, nextBackup, exitFlag, timerChange,
                   manualBackup, workerErrorFlag, token, start, sleepFor, useDiffTime,
                   diffTime, diff, deadline, nextAt, controlVars, wake, keysLeft, retimeUnseen,
                   queuedWake, pressLog, manualPresses>>

\* back_up_files returns or panics; the arms of the match; the guard is
\* dropped (main.rs 98-105, 118-125)
WBackupEnd ==
    /\ wpc \in { "in_sched", "in_manual" }
    /\ lock' = "free"
    /\ IF last.result = "ok"
       THEN /\ wpc' = IF wpc = "in_manual" THEN "after_manual" ELSE "head"
            /\ UNCHANGED <<workerErrorFlag, poisoned>>
       ELSE IF last.result = "err"
       THEN /\ workerErrorFlag' = TRUE
            /\ wpc' = "done"
            /\ UNCHANGED poisoned
       ELSE /\ poisoned' = TRUE
            /\ wpc' = "panicked"
            /\ UNCHANGED workerErrorFlag
    /\ UNCHANGED <<call, ret, uiVars, now, fsVars, fsRest, nextBackup, exitFlag, timerChange, manualBackup,
                   token, start, sleepFor, useDiffTime, diffTime, diff, deadline, nextAt,
                   controlVars, historyVars>>

\* a retime branch that leaves what is still owed of the new interval
WPendingOwed ==
    /\ wpc \in { "retime", "after_manual" } /\ lock = "free"
    /\ IF poisoned
       THEN wpc' = "panicked" /\ UNCHANGED <<useDiffTime, diffTime>>
       ELSE /\ wpc' = "head"
            /\ useDiffTime' = TRUE
            /\ diffTime' = DurationCompare(config.frequency, diff, None)
    /\ UNCHANGED <<call, ret, uiVars, now, fsVars, fsRest, sharedVars, start, sleepFor, diff, deadline,
                   nextAt, controlVars, historyVars>>

\* a manual branch that computes its diff_time as the retime branch does
WPendingSwapped ==
    /\ wpc \in { "retime", "after_manual" } /\ lock = "free"
    /\ IF poisoned
       THEN wpc' = "panicked" /\ UNCHANGED <<useDiffTime, diffTime>>
       ELSE /\ wpc' = "head"
            /\ useDiffTime' = TRUE
            /\ diffTime' = DurationCompare(diff, config.frequency, None)
    /\ UNCHANGED <<call, ret, uiVars, now, fsVars, fsRest, sharedVars, start, sleepFor, diff, deadline,
                   nextAt, controlVars, historyVars>>

\* use_diff_time = true and diff_time computed from the frequency read under
\* the lock: after a retime wake duration_compare(diff, frequency, None),
\* after a manual backup duration_compare(frequency, diff, None)
\* (main.rs 108-113, 126-131)
WPending ==
    /\ wpc \in { "retime", "after_manual" } /\ lock = "free"
    /\ IF poisoned
       THEN wpc' = "panicked" /\ UNCHANGED <<useDiffTime, diffTime>>
       ELSE /\ wpc' = "head"
            /\ useDiffTime' = TRUE
            /\ diffTime' = IF wpc = "retime"
                           THEN DurationCompare(diff, config.frequency, None)
                           ELSE DurationCompare(config.frequency, diff, None)
    /\ UNCHANGED <<call, ret, uiVars, now, fsVars, fsRest, sharedVars, start, sleepFor, diff, deadline,
                   nextAt, controlVars, historyVars>>

Worker == WHead \/ WReadFreq \/ WSetNext \/ WWake \/ WBackupStart \/ WBackupEnd \/ WPending

\* the List of ratatui rendered with a ListState: an empty list deselects,
\* an index past the end is set to the last item, no selection (-1) stays
Clamped(sel, len) == IF len = 0 THEN -1 ELSE IF sel >= len THEN len - 1 ELSE sel

\* terminal.draw(..) with the lock held by the closure: ui() lists the
\* backups for the footer (an Err shows "Never") and, on the Backups screen,
\* for the list (unwrap); a panic inside get_backups_sorted, or of the
\* unwrap, unwinds with the guard and poisons the Mutex
\* (main.rs 154-169; ui.rs 139-150, 371-392)
CDraw ==
    /\ cpc = "draw" /\ lock = "free"
    /\ IF poisoned
       THEN cpc' = "panicked" /\ UNCHANGED <<retval, poisoned, selected, picked>>
       ELSE \E got \in { GetBackupsSorted(entries, rootExists) } :
            IF got.kind = "panic" \/ (screen = "Backups" /\ got.kind = "err")
            THEN cpc' = "panicked" /\ poisoned' = TRUE
                 /\ UNCHANGED <<retval, selected, picked>>
            ELSE /\ IF screen = "Backups"
                    THEN \E dirs \in got.lists :
                           /\ selected' = Clamped(selected, Len(dirs))
                           /\ picked' = IF Clamped(selected, Len(dirs)) = -1 THEN NoName
                                        ELSE dirs[Clamped(selected, Len(dirs)) + 1].name
                    ELSE UNCHANGED <<selected, picked>>
                 /\ \/ cpc' = "poll" /\ UNCHANGED retval
                    \/ cpc' = "shutdown" /\ retval' = "err"
                 /\ UNCHANGED poisoned
    /\ UNCHANGED <<call, ret, now, fsVars, fsRest, lock, nextBackup, exitFlag, timerChange,
                   manualBackup, workerErrorFlag, token, workerVars, poll, key,
                   mainDebounce, runResult, historyVars, screen, action>>

\* start = Local::now(); event::poll is called with the timeout computed
\* from next_backup under the lock. The guard is a temporary of the argument
\* of event::poll, inside the condition of the `if`: it is dropped when the
\* condition has been evaluated, so the lock is held for as long as
\* event::poll waits (main.rs 169-182)
CPoll ==
    /\ cpc = "poll" /\ lock = "free"
    /\ IF poisoned
       THEN cpc' = "panicked" /\ UNCHANGED <<poll, lock>>
       ELSE cpc' = "wait" /\ poll' = PollTimeout(nextBackup, now) /\ lock' = "control"
    /\ UNCHANGED <<call, ret, uiVars, now, fsVars, fsRest, poisoned, nextBackup, exitFlag,
                   timerChange, manualBackup, workerErrorFlag, token, workerVars, key,
                   mainDebounce, retval, runResult, historyVars>>

\* event::poll returns Ok(false) at its timeout: the loop draws again
\* (main.rs 172-182, 559)
CPollTimeout ==
    /\ cpc = "wait"
    /\ ~poll.wrapped /\ (now - poll.at) * 1000 >= poll.ms
    /\ cpc' = "draw"
    /\ poll' = NoPoll
    /\ lock' = "free"
    /\ UNCHANGED <<call, ret, uiVars, now, fsVars, fsRest, poisoned, nextBackup, exitFlag,
                   timerChange, manualBackup, workerErrorFlag, token, workerVars, key,
                   mainDebounce, retval, runResult, historyVars>>

\* event::poll or event::read returns Err: retval = Err, break
\* (main.rs 178-181, 185-188)
CInputError ==
    /\ cpc = "wait"
    /\ cpc' = "shutdown" /\ retval' = "err"
    /\ poll' = NoPoll
    /\ lock' = "free"
    /\ UNCHANGED <<call, ret, uiVars, now, fsVars, fsRest, poisoned, nextBackup, exitFlag,
                   timerChange, manualBackup, workerErrorFlag, token, workerVars, key,
                   mainDebounce, runResult, historyVars>>

\* event::poll returns Ok(true), the guard is dropped, and event::read
\* returns a key press, one of `keys`; now = Local::now() (main.rs 183-191)
CReadFrom(keys) ==
    /\ cpc = "wait"
    /\ keysLeft > 0
    /\ \E k \in keys : key' = [code |-> k, at |-> now]
    /\ cpc' = "have_key"
    /\ poll' = NoPoll
    /\ lock' = "free"
    /\ keysLeft' = keysLeft - 1
    /\ UNCHANGED <<call, ret, uiVars, now, fsVars, fsRest, poisoned, nextBackup, exitFlag,
                   timerChange, manualBackup, workerErrorFlag, token, workerVars,
                   mainDebounce, retval, runResult, wake, runs, lateRuns, retimeUnseen,
                   queuedWake, pressLog, manualPresses, manualRuns>>

CRead == CReadFrom(Keys)

\* 'y' on the confirmation of a delete on the Backups screen:
\* remove_dir_all(&get_backups_sorted(..).unwrap()[index].1)?; the unwrap and
\* the index panic, the `?` leaves the closure of thread::scope with the Err
\* (main.rs 201-219)
ConfirmDelete ==
    /\ UNCHANGED <<lock, manualBackup, mainDebounce, screen, selected>>
    /\ IF screen # "Backups" \/ selected = -1
       THEN action' = "None" /\ cpc' = "draw" /\ UNCHANGED <<entries, poisoned, retval>>
       ELSE \E got \in { GetBackupsSorted(entries, rootExists) } :
            IF got.kind # "ok"
            THEN cpc' = "panicked" /\ poisoned' = TRUE
                 /\ UNCHANGED <<entries, retval, action>>
            ELSE \E dirs \in got.lists :
                 IF selected >= Len(dirs)
                 THEN cpc' = "panicked" /\ poisoned' = TRUE
                      /\ UNCHANGED <<entries, retval, action>>
                 ELSE IF dirs[selected + 1].locked
                 THEN cpc' = "bailed" /\ retval' = "err"
                      /\ UNCHANGED <<entries, poisoned, action>>
                 ELSE /\ entries' = entries \ { dirs[selected + 1] }
                      /\ action' = "None"
                      /\ cpc' = "draw"
                      /\ UNCHANGED <<poisoned, retval>>

\* the results of restore_backup(&install_path, snapshot, config): the
\* snapshot is copied back onto the installation, or the first copy error is
\* returned; nothing below the destination root is written
RestoreBackupResults == { "ok", "err" }

\* 'y' on the confirmation of a restore:
\* restore_backup(&install_path, &get_backups_sorted(..).unwrap()[index].1,
\* config)?, with the lock held (main.rs 235-250)
ConfirmRestore ==
    /\ UNCHANGED <<lock, manualBackup, mainDebounce, screen, selected, entries>>
    /\ IF selected = -1
       THEN action' = "None" /\ cpc' = "draw" /\ UNCHANGED <<poisoned, retval>>
       ELSE \E got \in { GetBackupsSorted(entries, rootExists) } :
            IF got.kind # "ok"
            THEN cpc' = "panicked" /\ poisoned' = TRUE /\ UNCHANGED <<retval, action>>
            ELSE \E dirs \in got.lists :
                 IF selected >= Len(dirs)
                 THEN cpc' = "panicked" /\ poisoned' = TRUE /\ UNCHANGED <<retval, action>>
                 ELSE \E r \in RestoreBackupResults :
                      IF r = "err"
                      THEN cpc' = "bailed" /\ retval' = "err"
                           /\ UNCHANGED <<poisoned, action>>
                      ELSE action' = "None" /\ cpc' = "draw"
                           /\ UNCHANGED <<poisoned, retval>>

\* a key while a confirmation is asked for (main.rs 193-256)
HandleConfirm ==
    IF key.code \in { "q", "n" }
    THEN action' = "None" /\ cpc' = "draw"
         /\ UNCHANGED <<lock, manualBackup, mainDebounce, screen, selected, entries,
                        poisoned, retval>>
    ELSE IF key.code = "y"
    THEN IF action = "ConfirmDelete" THEN ConfirmDelete ELSE ConfirmRestore
    ELSE cpc' = "draw"
         /\ UNCHANGED <<lock, manualBackup, mainDebounce, screen, selected, entries,
                        poisoned, retval, action>>

\* a Main screen whose tracker keeps the instant of the last accepted press
HandleMainAcceptedOnly ==
    /\ mainDebounce' = IF IsDebounced(key.code, key.at, mainDebounce, DebounceSecs)
                       THEN [mainDebounce EXCEPT ![key.code] = key.at]
                       ELSE mainDebounce
    /\ pressLog' = [pressLog EXCEPT ![key.code] = key.at]
    /\ manualPresses' = IF key.code = "m" /\ IsDebounced(key.code, key.at, mainDebounce, DebounceSecs)
                        THEN manualPresses + 1 ELSE manualPresses
    /\ UNCHANGED <<entries, poisoned, action, selected>>
    /\ IF ~IsDebounced(key.code, key.at, mainDebounce, DebounceSecs)
       THEN cpc' = "draw" /\ UNCHANGED <<lock, manualBackup, retval, screen>>
       ELSE IF key.code = "q"
       THEN cpc' = "shutdown" /\ retval' = "ok" /\ UNCHANGED <<lock, manualBackup, screen>>
       ELSE IF key.code = "m"
       THEN /\ cpc' = "unpark"
            /\ lock' = "control"
            /\ manualBackup' = TRUE
            /\ UNCHANGED <<retval, screen>>
       ELSE IF key.code = "b"
       THEN cpc' = "draw" /\ screen' = "Backups" /\ UNCHANGED <<lock, manualBackup, retval>>
       ELSE cpc' = "draw" /\ UNCHANGED <<lock, manualBackup, retval, screen>>

\* a key on the Main screen: the debounce gate, then 'q' (break), 'm'
\* (manual_backup set, the worker unparked next) or 'b' (main.rs 259-287)
HandleMain ==
    /\ mainDebounce' = [mainDebounce EXCEPT ![key.code] = key.at]
    /\ pressLog' = [pressLog EXCEPT ![key.code] = key.at]
    /\ manualPresses' = IF key.code = "m" /\ IsDebounced(key.code, key.at, mainDebounce, DebounceSecs)
                        THEN manualPresses + 1 ELSE manualPresses
    /\ UNCHANGED <<entries, poisoned, action, selected>>
    /\ IF ~IsDebounced(key.code, key.at, mainDebounce, DebounceSecs)
       THEN cpc' = "draw" /\ UNCHANGED <<lock, manualBackup, retval, screen>>
       ELSE IF key.code = "q"
       THEN cpc' = "shutdown" /\ retval' = "ok" /\ UNCHANGED <<lock, manualBackup, screen>>
       ELSE IF key.code = "m"
       THEN /\ cpc' = "unpark"
            /\ lock' = "control"
            /\ manualBackup' = TRUE
            /\ UNCHANGED <<retval, screen>>
       ELSE IF key.code = "b"
       THEN cpc' = "draw" /\ screen' = "Backups" /\ UNCHANGED <<lock, manualBackup, retval>>
       ELSE cpc' = "draw" /\ UNCHANGED <<lock, manualBackup, retval, screen>>

\* a key on the Backups screen (main.rs 314-337)
HandleBackups ==
    /\ cpc' = "draw"
    /\ UNCHANGED <<lock, manualBackup, mainDebounce, entries, poisoned, retval>>
    /\ IF key.code = "q"
       THEN screen' = "Main" /\ UNCHANGED <<action, selected>>
       ELSE IF key.code = "r"
       THEN action' = "ConfirmRestore" /\ UNCHANGED <<screen, selected>>
       ELSE IF key.code = "d"
       THEN action' = "ConfirmDelete" /\ UNCHANGED <<screen, selected>>
       ELSE IF key.code = "Down"
       THEN selected' = selected + 1 /\ UNCHANGED <<screen, action>>
       ELSE UNCHANGED <<screen, action, selected>>

\* the key is handled with the lock held: by the confirmation asked for, or
\* else by the screen (main.rs 192-287, 314-337)
CHandle ==
    /\ cpc = "have_key" /\ lock = "free"
    /\ key' = NoKey
    /\ IF poisoned
       THEN cpc' = "panicked"
            /\ UNCHANGED <<lock, manualBackup, mainDebounce, retval, entries, poisoned,
                           screen, action, selected, pressLog, manualPresses>>
       ELSE IF action \in { "ConfirmDelete", "ConfirmRestore" }
       THEN HandleConfirm /\ UNCHANGED <<pressLog, manualPresses>>
       ELSE IF screen = "Main" THEN HandleMain
       ELSE HandleBackups /\ UNCHANGED <<pressLog, manualPresses>>
    /\ UNCHANGED <<call, ret, now, rootExists, config, unreadable, fsRest, nextBackup,
                   exitFlag, timerChange, workerErrorFlag, token, workerVars, poll,
                   runResult, wake, runs, lateRuns, keysLeft, retimeUnseen, queuedWake,
                   picked, manualRuns>>

\* an unpark that has an effect only on a thread that is parked
UnparkIfParked == wpc = "park"

\* Thread::unpark makes the token of the thread available, whether or not
\* the thread is parked; a token that is there already stays (main.rs 277, 565)
Unpark == TRUE

\* worker.thread().unpark() after manual_backup was set; the guard is
\* dropped at the end of the block (main.rs 277, 553-557)
CUnpark ==
    /\ cpc = "unpark"
    /\ token' = (token \/ Unpark)
    /\ queuedWake' = IF token THEN queuedWake ELSE wpc # "park"
    /\ lock' = "free"
    /\ cpc' = "draw"
    /\ UNCHANGED <<call, ret, uiVars, now, fsVars, fsRest, poisoned, nextBackup, exitFlag, timerChange,
                   manualBackup, workerErrorFlag, workerVars, poll, key, mainDebounce,
                   retval, runResult, wake, runs, lateRuns, keysLeft, retimeUnseen, pressLog,
                   manualPresses, manualRuns>>

\* exit_flag.store(true, ..) (main.rs 564)
CExit ==
    /\ cpc = "shutdown"
    /\ exitFlag' = TRUE
    /\ cpc' = "unpark_exit"
    /\ UNCHANGED <<call, ret, uiVars, now, fsVars, fsRest, lock, poisoned, nextBackup, timerChange,
                   manualBackup, workerErrorFlag, token, workerVars, poll, key,
                   mainDebounce, retval, runResult, historyVars>>

\* worker.thread().unpark() (main.rs 565)
CUnparkExit ==
    /\ cpc = "unpark_exit"
    /\ token' = (token \/ Unpark)
    /\ queuedWake' = IF token THEN queuedWake ELSE wpc # "park"
    /\ cpc' = "join"
    /\ UNCHANGED <<call, ret, uiVars, now, fsVars, fsRest, lock, poisoned, nextBackup, exitFlag, timerChange,
                   manualBackup, workerErrorFlag, workerVars, poll, key, mainDebounce,
                   retval, runResult, wake, runs, lateRuns, keysLeft, retimeUnseen, pressLog,
                   manualPresses, manualRuns>>

\* worker.join() returns once the worker has ended; run() returns retval, or
\* LoopAndBackupWorker when the worker panicked and retval is Err
\* (main.rs 566-578)
CJoin ==
    /\ cpc = "join"
    /\ wpc \in { "done", "panicked" }
    /\ runResult' = IF wpc = "panicked" /\ retval = "err" THEN "err_loop_and_worker"
                    ELSE retval
    /\ cpc' = "returned"
    /\ UNCHANGED <<call, ret, uiVars, now, fsVars, fsRest, sharedVars, workerVars, poll, key, mainDebounce,
                   retval, historyVars>>

\* the control thread panicked on the poisoned lock, or left the closure with
\* the `?` of a failed delete: thread::scope waits for the worker, then run()
\* unwinds or returns the Err (main.rs 59, 158, 173, 192, 211-217)
CUnwind ==
    /\ cpc \in { "panicked", "bailed" }
    /\ wpc \in { "done", "panicked" }
    /\ runResult' = IF cpc = "panicked" THEN "panic" ELSE retval
    /\ cpc' = "returned"
    /\ UNCHANGED <<call, ret, uiVars, now, fsVars, fsRest, sharedVars, workerVars, poll, key, mainDebounce,
                   retval, historyVars>>

Control ==
    \/ CDraw \/ CPoll \/ CPollTimeout \/ CInputError \/ CRead \/ CHandle \/ CUnpark
    \/ CExit \/ CUnparkExit \/ CJoin \/ CUnwind

\* a second passes
Tick ==
    /\ now < until
    /\ now' = now + 1
    /\ UNCHANGED <<call, ret, fsVars, fsRest, schedVars>>

(***************************************************************************)
(* Spec: run() on the destination roots and configurations drawn by Init.  *)
(***************************************************************************)
\* run() on one of the destination roots and configurations, followed for
\* `seconds` with `keys` key presses
RunInit(f, seconds, keys) ==
    /\ now = StartTime
    /\ until = StartTime + seconds
    /\ keysLeft = keys
    /\ \/ /\ entries = {}
          /\ config \in { Config(f, ts, 1) : ts \in { DefaultTargets, <<>> } }
       \/ /\ entries \in { { Snap(StartTime - 20, TRUE), Snap(StartTime - 10, FALSE) },
                           { BadDate, Snap(StartTime - 10, FALSE) } }
          /\ config = Config(f, DefaultTargets, 1)
    /\ rootExists = TRUE
    /\ unreadable = {}
    /\ last = NoCall
    /\ taken = {}
    /\ entries0 = entries
    /\ SchedInit
    /\ Idle

Init == RunInit(Interval, RunTime, MaxKeys)

\* the runs checked for liveness
InitFair == RunInit(FairInterval, FairTime, FairKeys)

Next == Worker \/ Control \/ Tick

Spec == Init /\ [][Next]_vars

\* the steps of the worker that no spurious wake is needed for
WorkerStep ==
    \/ WHead \/ WReadFreq \/ WSetNext \/ WWakeBy("unpark") \/ WWakeBy("timeout")
    \/ WBackupStart \/ WBackupEnd \/ WPending

\* the steps of the control thread that need no key press and no error of
\* the terminal
ControlStep ==
    \/ CDraw \/ CPoll \/ CPollTimeout \/ CHandle \/ CUnpark \/ CExit \/ CUnparkExit
    \/ CJoin \/ CUnwind

\* SpecFair: each thread, being one sequential program, takes its next step
\* when that step stays possible: back_up_files returns, the lock is
\* granted, an unpark or an expired timeout ends park_timeout. Nothing is
\* assumed of the clock, of the keyboard or of spurious wakes.
Fairness == WF_vars(WorkerStep) /\ WF_vars(ControlStep)

SpecFair == InitFair /\ [][Next]_vars /\ Fairness

\* runs with an empty list of targets: the destination root is empty, holds
\* two snapshots of which prune removes the older, two of which the older
\* cannot be removed, or a directory whose name is no date
InitEmpty ==
    /\ now = StartTime
    /\ until = StartTime + EmptyTime
    /\ keysLeft = EmptyKeys
    /\ entries \in { {},
                     { Snap(StartTime - 20, FALSE), Snap(StartTime - 10, FALSE) },
                     { Snap(StartTime - 20, TRUE), Snap(StartTime - 10, FALSE) },
                     { BadDate, Snap(StartTime - 10, FALSE) } }
    /\ config = Config(ShortInterval, <<>>, 1)
    /\ rootExists = TRUE
    /\ unreadable = {}
    /\ last = NoCall
    /\ taken = {}
    /\ entries0 = entries
    /\ SchedInit
    /\ Idle

SpecEmpty == InitEmpty /\ [][Next]_vars

\* a run that is sent three key presses, so that a press can follow a
\* rejected press of the same key
InitPresses == RunInit(Interval, PressesTime, PressesKeys)

SpecPresses == InitPresses /\ [][Next]_vars

(***************************************************************************)
(* SpecRetime: run() together with the retime request of the control       *)
(* thread. main.rs creates timer_change (69-70) and the worker reads it    *)
(* (107), but the Frequency screen that would store it is todo!() (549):   *)
(* the request is taken from section 4.5 and 6 of the specification        *)
(* (requestRetime, after the interval was edited; the worker is woken).    *)
(***************************************************************************)
\* the intervals the operator changes to
NewIntervals == { 1, 3 }

\* requestRetime(): a key press on the Frequency screen is read and handled
\* under the lock: the interval is stored in the configuration, timer_change
\* is set; the worker is unparked next (CUnpark)
CRetime ==
    /\ cpc = "wait" /\ ~poisoned
    /\ keysLeft > 0
    /\ keysLeft' = keysLeft - 1
    /\ \E f \in NewIntervals : config' = [config EXCEPT !.frequency = f]
    /\ timerChange' = TRUE
    /\ retimeUnseen' = TRUE
    /\ lock' = "control"
    /\ cpc' = "unpark"
    /\ poll' = NoPoll
    /\ UNCHANGED <<call, ret, uiVars, now, entries, rootExists, unreadable, fsRest, poisoned, nextBackup,
                   exitFlag, manualBackup, workerErrorFlag, token, workerVars, key,
                   mainDebounce, retval, runResult, wake, runs, lateRuns, queuedWake, pressLog,
                   manualPresses, manualRuns>>

InitRetime == RunInit(Interval, RetimeTime, RetimeKeys)

NextRetime == Worker \/ Control \/ Tick \/ CRetime

SpecRetime == InitRetime /\ [][NextRetime]_vars

\* the same run with a longer interval: a sleep can be retimed after it has
\* lasted longer than the new interval (1 s) as well as shorter (3 s)
InitRetimeLong == RunInit(LongInterval, LongTime, LongKeys)

SpecRetimeLong == InitRetimeLong /\ [][NextRetime]_vars

\* the same run with an interval of which three seconds can pass before the
\* retime request
InitRetimeStall == RunInit(StallInterval, StallTime, LongKeys)

SpecRetimeStall == InitRetimeStall /\ [][NextRetime]_vars

\* ---- the Backups screen ----
\* A run in which the operator opens the list of backups, moves in it and
\* deletes an item, while the worker makes and prunes snapshots.

\* two snapshots in the root, the older one removable or not; one is kept
InitBackups ==
    /\ now = StartTime
    /\ until = StartTime + BackupsTime
    /\ keysLeft = BackupsPresses
    /\ entries \in { { Snap(StartTime - 20, l), Snap(StartTime - 10, FALSE) } : l \in BOOLEAN }
    /\ config = Config(Interval, DefaultTargets, 1)
    /\ rootExists = TRUE
    /\ unreadable = {}
    /\ last = NoCall
    /\ taken = {}
    /\ entries0 = entries
    /\ SchedInit
    /\ Idle

\* no manual backup is asked for in these runs: the worker never has a
\* pending duration to compute and the control thread unparks it only to
\* shut down
WorkerBackups == WHead \/ WReadFreq \/ WSetNext \/ WWake \/ WBackupStart \/ WBackupEnd

ControlBackups ==
    \/ CDraw \/ CPoll \/ CPollTimeout \/ CInputError \/ CReadFrom(BackupsKeys) \/ CHandle
    \/ CExit \/ CUnparkExit \/ CJoin \/ CUnwind

NextBackups == WorkerBackups \/ ControlBackups \/ Tick

SpecBackups == InitBackups /\ [][NextBackups]_vars

\* A run in which the operator opens the list of backups and deletes or
\* restores the selected item, while the worker makes and prunes snapshots.
InitRestore ==
    /\ now = StartTime
    /\ until = StartTime + RestoreTime
    /\ keysLeft = RestorePresses
    /\ entries \in { { Snap(StartTime - 20, l), Snap(StartTime - 10, FALSE) } : l \in BOOLEAN }
    /\ config = Config(ShortInterval, DefaultTargets, 1)
    /\ rootExists = TRUE
    /\ unreadable = {}
    /\ last = NoCall
    /\ taken = {}
    /\ entries0 = entries
    /\ SchedInit
    /\ Idle

ControlRestore ==
    \/ CDraw \/ CPoll \/ CPollTimeout \/ CInputError \/ CReadFrom(RestoreKeys) \/ CHandle
    \/ CExit \/ CUnparkExit \/ CJoin \/ CUnwind

NextRestore == WorkerBackups \/ ControlRestore \/ Tick

SpecRestore == InitRestore /\ [][NextRestore]_vars

(***************************************************************************)
(* Claims on the worker and the shutdown.                                  *)
(***************************************************************************)
WorkerEnded == wpc \in { "done", "panicked" }

InBackup == wpc \in { "in_sched", "in_manual" }

\* C5: when back_up_files (snapshot, then prune) fails in the worker, on the
\* scheduled or the manual path, the worker has set worker_error_flag and
\* has ended. The code does so for an Err; a panic of the prune ends the
\* worker with the flag clear.
C5_FaultFlagged ==
    (last.op = "back_up_files" /\ last.result # "ok" /\ ~InBackup)
        => (workerErrorFlag /\ wpc = "done")

\* C6: when the worker ended with worker_error_flag set, run() does not
\* return the Ok(()) of a clean exit.
C6_FaultSurfaced ==
    (workerErrorFlag /\ runResult # "none") => runResult # "ok"

\* C7: once exit_flag is set the worker starts no back_up_files call
\* (lateRuns counts the calls started with exit_flag set).
C7_NoSnapshotAfterExit ==
    lateRuns = 0

\* C8: after the control thread has stored exit_flag and unparked the
\* worker, the worker ends and run() returns from the join.
C8_ShutdownTerminates ==
    (exitFlag /\ cpc = "join") ~> (WorkerEnded /\ cpc = "returned")

\* the shutdown was started while the worker slept with a manual backup
\* pending; the worker ran it and ended, and run() returned
C8_Witness ==
    exitFlag /\ cpc = "returned" /\ wpc = "done" /\ lateRuns = 1

\* C9: when the worker's wait ended with diff >= sleep_for, the worker calls
\* back_up_files once, with the configuration of that moment, before it
\* sleeps again or ends.
C9_ScheduledOnce ==
    /\ wake.late =>
        /\ runs <= 1
        /\ (wpc \in { "head", "read_freq", "set_next", "park" } \/ WorkerEnded) => runs = 1
        /\ InBackup => (runs = 1 /\ last.op = "back_up_files" /\ last.cfg = config)

\* a scheduled back_up_files is done and the worker sleeps again
C9_Witness ==
    wake.late /\ wpc = "park" /\ runs = 1 /\ last.result = "ok" /\ last.fresh

ClampedSubtract(a, b) == IF a >= b THEN a - b ELSE 0

ManualWake == ~wake.late /\ wake.manual /\ ~wake.retime

\* C10: on an early wake with manual_backup set and timer_change clear the
\* worker clears manual_backup, calls back_up_files once, and leaves
\* use_diff_time set with diff_time = clampedSubtract(frequency, diff).
C10_ManualBranch ==
    /\ [](ManualWake =>
            /\ runs <= 1
            /\ wpc = "lock_manual" => (runs = 0 /\ ~useDiffTime)
            /\ wpc \in { "in_manual", "after_manual" } => runs = 1
            /\ wpc = "head" =>
                /\ runs = 1
                /\ useDiffTime
                /\ diffTime = ClampedSubtract(config.frequency, diff))
    /\ [][(wpc = "park" /\ wpc' # "park" /\ ManualWake')
            => (~manualBackup' /\ wpc' = "lock_manual")]_vars

\* a manual backup one second into a sleep of two left one second pending
C10_Witness ==
    ManualWake /\ wpc = "head" /\ runs = 1 /\ diff = 1 /\ useDiffTime /\ diffTime = 1


(***************************************************************************)
(* Claims on the retime request, checked under SpecRetime.                 *)
(***************************************************************************)
\* the step by which park_timeout returns before sleep_for has passed
EarlyWake == wpc = "park" /\ wpc' # "park" /\ ~wake'.late

\* C11: at an early wake with a retime request and manual_backup both set
\* the worker takes the retime branch, which calls back_up_files not once,
\* and manual_backup stays set; at an early wake with manual_backup set and
\* no retime request unanswered, the next such wake after the above, the
\* worker takes the manual branch.
C11_RetimeThenManual ==
    /\ [](wpc = "retime" => runs = 0)
    /\ [][(EarlyWake /\ retimeUnseen /\ manualBackup) =>
                (wpc' = "retime" /\ manualBackup')]_vars
    /\ [][(EarlyWake /\ wake.deferred /\ ~retimeUnseen /\ manualBackup) =>
                wpc' = "lock_manual"]_vars

\* C12: the retime branch leaves timer_change false, and an early wake with
\* no retime request unanswered does not take the retime branch.
C12_RetimeCleared ==
    /\ [][(wpc = "retime" /\ wpc' = "head") => ~timerChange']_vars
    /\ [][(EarlyWake /\ ~retimeUnseen) => wpc' # "retime"]_vars

(***************************************************************************)
(* SpecPure: the functions of app.rs and main.rs that depend on their      *)
(* arguments alone, each called once on arguments drawn by InitPure.       *)
(***************************************************************************)
\* largest Duration, in seconds, given to duration_compare
MaxDuration == 5

\* seconds after StartTime at which the zones with a transition change offset
ShiftAfter == 3

\* is_debounced: the seconds after StartTime of the latest press, and the
\* longest debounce window in seconds
MaxPress == 3

MaxWindow == 3

\* the f64 values given as on_error
Floors ==
    { F64("finite", v) : v \in -2..3 } \cup { F64(k, 0) : k \in { "huge", "nan", "inf", "-inf" } }

DurationCompareCalls ==
    { [fn |-> "duration_compare", left |-> a, right |-> b, on_error |-> f] :
        a \in 0..MaxDuration, b \in 0..MaxDuration,
        f \in { None } \cup { Some(x) : x \in Floors } }

Returned(v) == [done |-> TRUE, val |-> v]

\* duration_compare(left, right, on_error)
ApplyDurationCompare ==
    /\ call.fn = "duration_compare" /\ ~ret.done
    /\ ret' = Returned(DurationCompare(call.left, call.right, call.on_error))
    /\ UNCHANGED <<call, now, fsVars, fsRest, schedVars>>

\* the zones Local is given: none, one where the clocks go back an hour
\* (UTC-5 to UTC-6) while the calls are made, one where they go forward
Zones ==
    { LocalZone,
      Zone(StartTime + ShiftAfter, -18000, -21600),
      Zone(StartTime + ShiftAfter, -21600, -18000) }

RoundTripCalls ==
    { [fn |-> "round_trip", zone |-> z, t |-> t] :
        z \in Zones, t \in StartTime..(StartTime + MaxTime) }

\* the name back_up_files gives a directory at instant t, handled by
\* get_backups_sorted
ApplyRoundTrip ==
    /\ call.fn = "round_trip" /\ ~ret.done
    /\ ret' = Returned(ParseNameIn(call.zone, FormatNameIn(call.zone, call.t)))
    /\ UNCHANGED <<call, now, fsVars, fsRest, schedVars>>

GetBackupsSortedCalls ==
    { [fn |-> "get_backups_sorted", entries |-> es, rootExists |-> TRUE] : es \in InitialRoots }
        \cup { [fn |-> "get_backups_sorted", entries |-> {}, rootExists |-> FALSE] }

\* get_backups_sorted(&config): one of the vectors it can return, or how it
\* ended instead
ApplyGetBackupsSorted ==
    /\ call.fn = "get_backups_sorted" /\ ~ret.done
    /\ \E got \in { GetBackupsSorted(call.entries, call.rootExists) } :
          IF got.kind = "ok"
          THEN \E dirs \in got.lists : ret' = Returned([kind |-> "ok", dirs |-> dirs])
          ELSE ret' = Returned([kind |-> got.kind, dirs |-> <<>>])
    /\ UNCHANGED <<call, now, fsVars, fsRest, schedVars>>

\* the instants of key presses and of tracker entries
PressTimes == StartTime..(StartTime + MaxPress)

IsDebouncedCalls ==
    { [fn |-> "is_debounced", key |-> k, timestamp |-> t, tracker |-> tr, duration |-> d] :
        k \in Keys, t \in PressTimes, tr \in [Keys -> { -1 } \cup PressTimes],
        d \in 0..MaxWindow }

\* is_debounced(key, timestamp, &tracker, duration)
ApplyIsDebounced ==
    /\ call.fn = "is_debounced" /\ ~ret.done
    /\ ret' = Returned(IsDebounced(call.key, call.timestamp, call.tracker, call.duration))
    /\ UNCHANGED <<call, now, fsVars, fsRest, schedVars>>

PureCalls ==
    DurationCompareCalls \cup RoundTripCalls \cup GetBackupsSortedCalls \cup IsDebouncedCalls

InitPure ==
    /\ call \in PureCalls
    /\ ret = NoRet
    /\ now = StartTime /\ until = StartTime
    /\ entries = {} /\ rootExists = TRUE /\ unreadable = {}
    /\ config = Config(Interval, <<>>, 0)
    /\ last = NoCall /\ taken = {} /\ entries0 = {}
    /\ SchedInit
    /\ keysLeft = 0

NextPure ==
    ApplyDurationCompare \/ ApplyRoundTrip \/ ApplyGetBackupsSorted \/ ApplyIsDebounced

SpecPure == InitPure /\ [][NextPure]_vars

(***************************************************************************)
(* Claims on the functions, checked under SpecPure.                        *)
(***************************************************************************)
\* C15: duration_compare(a, b, floor) returns a Duration for all arguments,
\* a - b when a >= b; when a < b it returns floor for a floor that is
\* supplied and not negative, and 0 for a floor that is absent or negative.
C15_DurationCompareTotal ==
    (call.fn = "duration_compare" /\ ret.done) =>
        LET a  == call.left
            b  == call.right
            fl == call.on_error
        IN  /\ ret.val # Unwound
            /\ a >= b => ret.val = a - b
            /\ (a < b /\ fl.some /\ fl.val.kind = "finite" /\ fl.val.val >= 0) =>
                    ret.val = fl.val.val
            /\ (a < b /\ (~fl.some \/ F64Negative(fl.val))) => ret.val = 0

\* C16: the name formatted for the instant t, split and parsed as
\* get_backups_sorted does, gives the instant t again.
C16_NameRoundTrip ==
    (call.fn = "round_trip" /\ ret.done) => ret.val = [kind |-> "ok", ts |-> call.t]

\* the directories of a root whose names are six integers that make a date
\* and time of day
Decodable(es) ==
    { e \in es : /\ e.kind = "dir"
                 /\ LET toks == SplitName(e.name)
                    IN  /\ Len(toks) = 6
                        /\ \A i \in 1..6 : ParseU32(toks[i]) >= 0
                        /\ WithYmdAndHms(ParseU32(toks[1]), ParseU32(toks[2]),
                                         ParseU32(toks[3]), ParseU32(toks[4]),
                                         ParseU32(toks[5]), ParseU32(toks[6])) >= 0 }

\* C17: get_backups_sorted on an existing destination root returns a vector
\* that holds every decodable snapshot directory once, in ascending order of
\* timestamp.
C17_SortedListing ==
    (call.fn = "get_backups_sorted" /\ ret.done /\ call.rootExists) =>
        /\ ret.val.kind = "ok"
        /\ LET dirs == ret.val.dirs
           IN  /\ { dirs[i] : i \in 1..Len(dirs) } = Decodable(call.entries)
               /\ Len(dirs) = Cardinality(Decodable(call.entries))
               /\ \A i \in 1..Len(dirs) : \A j \in i..Len(dirs) :
                      Stamp(dirs[i]) <= Stamp(dirs[j])

\* C18: no directory name makes get_backups_sorted or remove_old_backups
\* end otherwise than by returning, nor the worker end by a panic.
C18_BadNameSkipped ==
    /\ last.result # "panic"
    /\ wpc # "panicked"
    /\ ~poisoned

\* C19: is_debounced returns true for a key without an entry in the
\* tracker; for a key with the entry `last` and timestamp >= last it returns
\* true exactly when timestamp - last >= duration.
C19_DebounceGate ==
    (call.fn = "is_debounced" /\ ret.done) =>
        LET lastAt == call.tracker[call.key]
        IN  /\ lastAt = -1 => ret.val
            /\ (lastAt # -1 /\ call.timestamp >= lastAt) =>
                    (ret.val <=> call.timestamp - lastAt >= call.duration)

\* a press exactly two seconds after the recorded one passed a gate of two
\* seconds, the other key having a later entry
C19_Witness ==
    /\ call.fn = "is_debounced" /\ ret.done /\ ret.val
    /\ call.duration = 2
    /\ call.tracker[call.key] # -1
    /\ call.timestamp - call.tracker[call.key] = 2
    /\ \E k \in Keys : call.tracker[k] > call.timestamp

\* the control thread handles 'y' on the confirmation of a delete
ConfirmedDelete ==
    /\ cpc = "have_key" /\ key.code = "y" /\ key' = NoKey
    /\ ~poisoned /\ action = "ConfirmDelete" /\ screen = "Backups"

\* C20: a confirmed delete on the Backups screen removes nothing but the
\* directory that was highlighted in the list as it was last drawn, whatever
\* the worker made or pruned between that draw and the confirmation.
C20_DeletesSelected ==
    [][ConfirmedDelete =>
          /\ entries' \subseteq entries
          /\ \A e \in entries \ entries' : e.name = picked]_vars

\* C22: while a back_up_files call of the worker is running (snapshot and
\* prune), the worker does not hold the lock around App, so that the control
\* thread can take it.
C22_NoLockAcrossIO == InBackup => lock # "worker"

\* C23: once worker_error_flag is set, the control thread does not set
\* manual_backup and does not unpark the worker for the manual-backup key.
C23_NoTriggerAfterFault ==
    [][workerErrorFlag =>
          /\ manualBackup' => manualBackup
          /\ (token' /\ ~exitFlag') => token]_vars

\* C24 as first stated: a sleep of the worker that starts with a token left
\* by an unpark issued while the worker was not sleeping is not cut short
\* by it: it ends no earlier than its timeout.
C24_WakeNotQueued ==
    [][(wpc = "park" /\ wpc' # "park" /\ queuedWake) => now >= deadline]_vars

\* C24: an unpark issued by the control thread while the worker is not
\* sleeping is kept as the one token of the thread until the worker's next
\* wake, which takes it; the sleep that starts with the token can end on it
\* before its timeout.
C24_WakeKept ==
    /\ [](queuedWake => token)
    /\ [][(wpc = "park" /\ wpc' # "park") => (~token' /\ ~queuedWake')]_vars
    /\ []((wpc = "park" /\ queuedWake) => ENABLED WWakeBy("unpark"))

\* a sleep ended before its timeout on a token that was set before it began
C24_Witness ==
    /\ wake.queued /\ ~wake.late
    /\ diff < sleepFor
    /\ now < deadline

\* the worker starts an iteration of its loop
StartsIteration == wpc = "head" /\ wpc' \notin { "head", "done" }

C26_NextFireTime ==
    /\ [][(wpc = "set_next" /\ wpc' = "park") => nextBackup' = now + sleepFor']_vars
    /\ [](wpc = "park" => nextBackup = deadline)

\* the worker's last wake was early and found neither timer_change nor
\* manual_backup set
IdleWake == ~wake.late /\ ~wake.retime /\ ~wake.manual

\* C27: an early wake (diff < sleep_for) that finds neither timer_change nor
\* manual_backup set goes back to the loop head: no flag is changed, no
\* pending duration is left, nothing is written below the backup root; no
\* back_up_files call follows it before the next sleep, and that sleep lasts
\* the frequency of the configuration.
C27_SpuriousWake ==
    /\ [][(EarlyWake /\ ~timerChange /\ ~manualBackup) =>
            /\ wpc' = "head"
            /\ UNCHANGED <<exitFlag, timerChange, manualBackup, workerErrorFlag>>
            /\ UNCHANGED <<useDiffTime, diffTime, entries, lock>>
            /\ ~useDiffTime']_vars
    /\ [](IdleWake => runs = 0)
    /\ []((IdleWake /\ wpc \in { "set_next", "park" }) =>
            (sleepFor = config.frequency /\ ~useDiffTime))

\* one second into its first sleep the worker woke with no flag set; it
\* sleeps again, for the two seconds of the frequency
C27_Witness ==
    /\ IdleWake /\ diff = 1 /\ wpc = "park"
    /\ start > StartTime /\ sleepFor = 2 /\ deadline = start + 2
    /\ entries = entries0

\* C28: after a manual backup that interrupted a sleep of length sleep_for
\* (a full interval or a pending duration) at diff, the pending duration for
\* the next sleep is sleep_for - diff, so that the next scheduled backup
\* stays at the instant at which the interrupted sleep would have ended.
C28_SchedulePreserved ==
    [][(wpc = "after_manual" /\ wpc' = "head") =>
          (useDiffTime' /\ diffTime' = ClampedSubtract(sleepFor, diff))]_vars

\* C29: the retime branch of an early wake leaves, as the pending duration
\* of the next sleep, diff minus the frequency read from the configuration
\* at that moment, or zero when the frequency is the larger; it calls no
\* back_up_files and writes nothing below the backup root.
C29_RetimePending ==
    [][(wpc = "retime" /\ wpc' = "head") =>
          /\ useDiffTime'
          /\ diffTime' = ClampedSubtract(diff, config.frequency)
          /\ runs = 0 /\ runs' = 0
          /\ UNCHANGED <<entries, rootExists, last>>]_vars

\* two seconds into a sleep the frequency was set to one second: one second
\* is pending, and no backup was made
C29_Witness ==
    /\ wake.retime /\ ~wake.late /\ wpc = "head" /\ useDiffTime
    /\ diff = 2 /\ config.frequency = 1 /\ diffTime = 1
    /\ runs = 0 /\ entries = entries0

\* C30: the timeout the control thread passes to event::poll never exceeds
\* the time left until next_backup, also when next_backup is still the epoch
\* of App::new or an instant that has passed: the difference in milliseconds
\* minus 1 is then negative and is converted to an unsigned 64-bit number.
C30_PollWithinRemaining ==
    [][(cpc = "poll" /\ cpc' = "wait") =>
          /\ ~poll'.wrapped
          /\ poll'.ms <= (nextBackup - now) * 1000]_vars

\* a key press is handled on the Main screen
MainPress ==
    /\ cpc = "have_key" /\ cpc' # "have_key"
    /\ ~poisoned /\ action = "None" /\ screen = "Main"

\* the press was let through the gate: 'q' leaves the loop, 'm' asks for a
\* manual backup and goes on to unpark the worker
PressAccepted ==
    \/ key.code = "q" /\ cpc' = "shutdown" /\ retval' = "ok"
    \/ key.code = "m" /\ cpc' = "unpark" /\ manualBackup'

\* the press was dropped: nothing but the tracker changes
PressRejected ==
    cpc' = "draw" /\ UNCHANGED <<manualBackup, retval, screen, token, exitFlag>>

\* C31: on the Main screen every press of a key, accepted or rejected,
\* overwrites the tracker entry of that key with the instant of the press and
\* leaves the entries of the other keys alone; a press is accepted if and
\* only if no press of the same key was handled on the Main screen in the
\* 2 seconds before it, whatever other keys were pressed.
C31_DebounceEveryPress ==
    /\ [][MainPress => mainDebounce' = [mainDebounce EXCEPT ![key.code] = key.at]]_vars
    /\ [][mainDebounce' # mainDebounce => MainPress]_vars
    /\ [][MainPress =>
            IF pressLog[key.code] = -1 \/ key.at - pressLog[key.code] >= DebounceSecs
            THEN PressAccepted ELSE PressRejected]_vars

\* a third press of 'm' is about to be handled one second after the second,
\* which was rejected, and two seconds or more after the first
C31_Witness ==
    /\ cpc = "have_key" /\ key = [code |-> "m", at |-> StartTime + 2]
    /\ screen = "Main" /\ action = "None" /\ ~poisoned
    /\ keysLeft = PressesKeys - 3
    /\ mainDebounce["m"] = StartTime + 1
    /\ mainDebounce["q"] = -1

\* the worker enters back_up_files with an empty list of targets
EmptyCall ==
    /\ last' # last /\ last'.op = "back_up_files"
    /\ config.targets = <<>> /\ rootExists /\ config.max_backups >= 1

C33_ExitSetBeforeWait ==
    cpc \in { "join", "bailed" } => exitFlag

\* the worker is at a lock() of the Mutex: to read the frequency, to write
\* next_backup, to call back_up_files or to compute the pending duration
WantsLock ==
    wpc \in { "read_freq", "set_next", "lock_sched", "lock_manual", "retime", "after_manual" }

\* C34: a worker that is at a lock() gets past it, also when no key is
\* pressed: when the control thread holds the lock while it waits for input,
\* the wait is bounded by a timeout that expires.
C34_WorkerGetsLock ==
    (cpc = "wait" /\ lock = "control" /\ WantsLock) => ~poll.wrapped

\* the control thread lists the snapshots (every draw does, for the footer
\* and for the list of the Backups screen), or handles the 'y' that confirms
\* a delete or a restore
ControlTouchesRoot ==
    \/ cpc = "draw" /\ cpc' # "draw"
    \/ /\ cpc = "have_key" /\ cpc' # "have_key" /\ key.code = "y"
       /\ action \in { "ConfirmDelete", "ConfirmRestore" }

\* C35: a back_up_files call of the worker (snapshot and prune) and a
\* listing, delete or restore of the control thread never run at the same
\* time: the worker holds the lock for the whole of its call, and the control
\* thread does these only at a moment at which it takes the lock.
C35_RootOpsExclusive ==
    /\ [](InBackup => lock = "worker")
    /\ [][ControlTouchesRoot => (lock = "free" /\ ~InBackup)]_vars
    /\ [][(InBackup /\ InBackup') => UNCHANGED <<entries, rootExists, picked, selected>>]_vars

\* the worker is in a back_up_files call that has made a snapshot and pruned,
\* while the control thread has read the 'y' that confirms a delete on the
\* Backups screen and is at its lock()
C35_Witness ==
    /\ InBackup /\ lock = "worker" /\ last.result = "ok" /\ last.removed # {}
    /\ cpc = "have_key" /\ key.code = "y"
    /\ screen = "Backups" /\ action = "ConfirmDelete" /\ selected = 0

\* a successful back_up_files call that has created its snapshot directory,
\* with a cap of one or more
CreatingCall ==
    /\ last' # last /\ last'.op = "back_up_files"
    /\ last'.result = "ok" /\ last'.fresh
    /\ config.max_backups >= 1

\* the snapshot directories present whose timestamp is not before instant t
NotBefore(es, t) == { e \in Managed(es) : Stamp(e) >= t }

\* C36 as written: with max_backups >= 1 the snapshot directory created by
\* a successful back_up_files call exists when the call returns, whatever
\* snapshot directories were present, those with later timestamps included.
C36_NewSnapshotKept ==
    [][CreatingCall => NewDir(entries', now) # {}]_vars

\* C36: with max_backups >= 1 the snapshot directory created by a
\* successful back_up_files call exists when the call returns, provided
\* fewer than max_backups of the snapshot directories present carry a
\* timestamp at or after the instant of the call; when max_backups or more
\* of them carry a later timestamp, the call removes the directory it made.
C36_KeptUnlessNewerFill ==
    /\ [][(CreatingCall /\ Cardinality(NotBefore(entries, now)) < config.max_backups) =>
            NewDir(entries', now) # {}]_vars
    /\ [][(CreatingCall
            /\ Cardinality(NotBefore(entries, now + 1)) >= config.max_backups) =>
            (NewDir(entries', now) = {} /\ FormatName(now) \in last'.removed)]_vars

\* beside a snapshot dated 100 s ahead and a cap of 2, the call has kept the
\* directory it made and removed the one older snapshot
C36_Witness ==
    /\ last.op = "back_up_files" /\ last.result = "ok" /\ last.fresh
    /\ config.max_backups = 2
    /\ Snap(StartTime + 100, FALSE) \in entries
    /\ NewDir(entries, now) # {}
    /\ last.removed = { FormatName(StartTime - 10) }

\* the control thread is in an event::poll that ends at a timeout
BoundedWait == cpc = "wait" /\ ~poll.wrapped

\* C37: once an accepted 'm' has set manual_backup while the worker is alive
\* and no exit is asked for, a back_up_files call of the worker starts or the
\* worker ends (faulted). Not held against the claim: a run in which exit is
\* asked for afterwards, and one in which the control thread is left in an
\* event::poll with a timeout (the clock is not required to advance).
C37_ManualLeadsToSnapshot ==
    (manualBackup /\ ~exitFlag /\ ~WorkerEnded) ~>
        (InBackup \/ WorkerEnded \/ exitFlag \/ BoundedWait)

\* C38: the back_up_files calls started on the worker's manual branch are never
\* more than the accepted presses of 'm'; manual_backup is false from the swap
\* of the branch until a later accepted press, so that the request that
\* caused a call is cleared before the call starts and cannot cause another.
C38_ManualRunsWithinPresses ==
    /\ [](manualRuns + (IF manualBackup THEN 1 ELSE 0)
              + (IF wpc = "lock_manual" THEN 1 ELSE 0) <= manualPresses)
    /\ [][wpc' = "lock_manual" /\ wpc # "lock_manual" => manualBackup /\ ~manualBackup']_vars
    /\ [][manualRuns' # manualRuns =>
              wpc = "lock_manual" /\ wpc' = "in_manual" /\ manualRuns' = manualRuns + 1]_vars
    /\ [][~manualBackup /\ manualBackup' => manualPresses' = manualPresses + 1]_vars

\* two accepted presses of 'm', each answered by a manual snapshot, the
\* second under way
C38_Witness ==
    wpc = "in_manual" /\ manualPresses = 2 /\ manualRuns = 2 /\ ~manualBackup

\* the worker enters park_timeout(sleep_for)
SleepStarts == wpc = "set_next" /\ wpc' = "park"

\* C39: the sleep_for of every park_timeout the worker enters is at most the
\* frequency the configuration holds at that moment, also when sleep_for is
\* the diff_time left by the retime branch or by the manual branch.
C39_SleepWithinInterval ==
    [][SleepStarts => sleepFor <= config.frequency]_vars

=========================================================================
